---- MODULE Spec2Model ----
(***************************************************************************)
(* Model of the transcript scoring system: the text helpers and keyword    *)
(* matcher (backend/nlp_processor.py), the utility functions               *)
(* (backend/utils.py), the scoring engine (backend/scoring_engine.py) and  *)
(* the request handlers with their lazily created singletons               *)
(* (backend/app.py).                                                       *)
(*                                                                         *)
(* Texts are sequences of one-character strings.  Python floats are        *)
(* modelled as exact rationals <<n, d>> in lowest terms with d > 0.        *)
(***************************************************************************)
EXTENDS Integers, Sequences, FiniteSets

(***************************************************************************)
(* Bounds of the model.                                                    *)
(***************************************************************************)
MaxTextLen == 3        \* longest enumerated text of the function harness
MaxKeywords == 2       \* longest enumerated keyword list
MaxWordBound == 2      \* largest enumerated small min_words / max_words / word count
SimSteps == 10         \* similarities are k / SimSteps, k in 0..SimSteps
MaxPairs == 3          \* longest (score, weight) list given to the weighted average
MaxRows == 2           \* most rubric rows of an enumerated rubric
MaxCalls == 3          \* scoring calls made on one engine
MaxBatch == 2          \* longest batch request
MaxEnters == 2         \* calls one thread makes

(***************************************************************************)
(* Program constants.                                                      *)
(***************************************************************************)
NoLimitMax == 999              \* the "unbounded" max_words sentinel
MinTranscriptWords == 10       \* validate_transcript: fewest words accepted
MaxTranscriptWords == 5000     \* validate_transcript: most words accepted

(***************************************************************************)
(* Exact rational arithmetic standing for Python float arithmetic.         *)
(***************************************************************************)
Abs(n) == IF n < 0 THEN -n ELSE n

RECURSIVE GCD(_, _)
GCD(a, b) == IF b = 0 THEN a ELSE GCD(b, a % b)

Rat(n, d) ==
    LET s == IF d < 0 THEN -1 ELSE 1
        g == GCD(Abs(n), Abs(d))
    IN  IF n = 0 THEN <<0, 1>> ELSE <<(s * n) \div g, (s * d) \div g>>

RInt(n) == <<n, 1>>
RAdd(a, b) == Rat(a[1] * b[2] + b[1] * a[2], a[2] * b[2])
RSub(a, b) == Rat(a[1] * b[2] - b[1] * a[2], a[2] * b[2])
RMul(a, b) == Rat(a[1] * b[1], a[2] * b[2])
RDiv(a, b) == Rat(a[1] * b[2], a[2] * b[1])
RLe(a, b) == a[1] * b[2] <= b[1] * a[2]
RLt(a, b) == a[1] * b[2] < b[1] * a[2]
RMin(a, b) == IF RLe(a, b) THEN a ELSE b
RMax(a, b) == IF RLe(b, a) THEN a ELSE b

\* round(x, 2): nearest hundredth, ties to the even hundredth
Round2(r) ==
    LET n == r[1] * 100
        q == n \div r[2]
        rem == n % r[2]
        up == \/ 2 * rem > r[2]
              \/ (2 * rem = r[2] /\ q % 2 = 1)
    IN  Rat(IF up THEN q + 1 ELSE q, 100)

RECURSIVE SumSeq(_)
SumSeq(s) == IF s = <<>> THEN RInt(0) ELSE RAdd(s[1], SumSeq(Tail(s)))

Pending == [fn |-> "pending"]

(***************************************************************************)
(* Outcome of a call: a returned value or a raised exception.              *)
(***************************************************************************)
Ok(v) == [exc |-> "none", val |-> v]
Raise(e) == [exc |-> e, val |-> <<>>]
Raised(r) == r.exc # "none"

(***************************************************************************)
(* Characters and Python's str methods.                                    *)
(***************************************************************************)
LowerLetters == {"a", "b", "z"}
UpperLetters == {"A"}
Letters == LowerLetters \cup UpperLetters
Whitespace == {" "}
KeptPunct == {"!", ","}        \* punctuation preprocess_text keeps
DroppedChars == {"@"}          \* characters preprocess_text removes

IsWs(c) == c \in Whitespace
IsAlnumChar(c) == c \in Letters

LowerChar(c) == IF c = "A" THEN "a" ELSE c
\* str.lower()
Lower(t) == [i \in DOMAIN t |-> LowerChar(t[i])]

\* the characters of t at the positions i with keep[i], in order
FilterIdx(t, keep) ==
    LET Kept(i) == keep[i]
        idx == SelectSeq([i \in DOMAIN t |-> i], Kept)
    IN  [j \in DOMAIN idx |-> t[idx[j]]]

\* str.strip()
Strip(t) ==
    LET Inner(i) == /\ \E j \in 1..i : ~IsWs(t[j])
                    /\ \E j \in i..Len(t) : ~IsWs(t[j])
    IN  FilterIdx(t, [i \in DOMAIN t |-> Inner(i)])

\* positions where a whitespace-separated word starts
WordStarts(t) == {i \in DOMAIN t : ~IsWs(t[i]) /\ (i = 1 \/ IsWs(t[i - 1]))}
\* len(str.split())
SplitCount(t) == Cardinality(WordStarts(t))

\* needle in haystack (Python's substring test)
MatchAt(k, t, i) == i + Len(k) - 1 <= Len(t) /\ SubSeq(t, i, i + Len(k) - 1) = k
IsSubstring(k, t) == k = <<>> \/ \E i \in DOMAIN t : MatchAt(k, t, i)

\* str.count(k): non-overlapping occurrences, scanning from the left
RECURSIVE CountFrom(_, _, _)
CountFrom(k, t, from) ==
    IF \E i \in from..Len(t) : MatchAt(k, t, i)
    THEN LET first == CHOOSE i \in from..Len(t) :
                          MatchAt(k, t, i) /\ \A j \in from..(i - 1) : ~MatchAt(k, t, j)
         IN  1 + CountFrom(k, t, first + Len(k))
    ELSE 0
StrCount(k, t) == CountFrom(k, t, 1)

(***************************************************************************)
(* backend/nlp_processor.py                                                *)
(***************************************************************************)
\* re.sub(r'\s+', ' ', text): every whitespace run becomes one space
CollapseWhitespace(t) ==
    LET Keep(i) == ~(IsWs(t[i]) /\ i > 1 /\ IsWs(t[i - 1]))
        kept == FilterIdx(t, [i \in DOMAIN t |-> Keep(i)])
    IN  [i \in DOMAIN kept |-> IF IsWs(kept[i]) THEN " " ELSE kept[i]]

\* re.sub(r'[^\w\s.,!?-]', '', text)
RemoveSpecial(t) ==
    LET Keep(i) == t[i] \notin DroppedChars
    IN  FilterIdx(t, [i \in DOMAIN t |-> Keep(i)])

preprocess_text(text) == Strip(RemoveSpecial(CollapseWhitespace(text)))

\* nltk word_tokenize on this alphabet: a maximal run of letters is one token,
\* every punctuation or special character is a token of its own
IsTokenStart(t, i) ==
    /\ ~IsWs(t[i])
    /\ \/ ~IsAlnumChar(t[i])
       \/ i = 1
       \/ ~IsAlnumChar(t[i - 1])
TokenEnd(t, s) ==
    IF ~IsAlnumChar(t[s]) THEN s
    ELSE CHOOSE j \in s..Len(t) :
             /\ \A k \in s..j : IsAlnumChar(t[k])
             /\ (j = Len(t) \/ ~IsAlnumChar(t[j + 1]))
word_tokenize(t) ==
    LET IsStart(i) == IsTokenStart(t, i)
        starts == SelectSeq([i \in DOMAIN t |-> i], IsStart)
    IN  [j \in DOMAIN starts |-> SubSeq(t, starts[j], TokenEnd(t, starts[j]))]

\* str.isalnum()
IsAlnum(w) == w # <<>> /\ \A i \in DOMAIN w : IsAlnumChar(w[i])

\* len(nltk sent_tokenize(text)): a sentence ends at a "!" that is followed by
\* whitespace and further text; blank text has no sentence
SentenceBreaks(t) ==
    {i \in DOMAIN t : /\ t[i] = "!"
                      /\ i < Len(t) /\ IsWs(t[i + 1])
                      /\ \E j \in (i + 1)..Len(t) : ~IsWs(t[j])}
sent_tokenize_count(t) ==
    IF \A i \in DOMAIN t : IsWs(t[i]) THEN 0 ELSE 1 + Cardinality(SentenceBreaks(t))

count_words(text) ==
    Len(SelectSeq(word_tokenize(Lower(text)), IsAlnum))

\* find_keyword_matches comparing the keyword as written, without case folding
RECURSIVE MatchLoopCaseSensitive(_, _, _, _, _, _)
MatchLoopCaseSensitive(keywords, k, text_lower, text_words, found, missing) ==
    IF k > Len(keywords) THEN [found |-> found, missing |-> missing]
    ELSE LET keyword == keywords[k]
         IN  IF IsSubstring(keyword, text_lower) \/ keyword \in text_words
             THEN MatchLoopCaseSensitive(keywords, k + 1, text_lower, text_words,
                                         Append(found, keyword), missing)
             ELSE MatchLoopCaseSensitive(keywords, k + 1, text_lower, text_words,
                                         found, Append(missing, keyword))

\* the loop of find_keyword_matches over keywords[k..], appending to found / missing
RECURSIVE MatchLoop(_, _, _, _, _, _)
MatchLoop(keywords, k, text_lower, text_words, found, missing) ==
    IF k > Len(keywords) THEN [found |-> found, missing |-> missing]
    ELSE LET keyword == keywords[k]
         IN  IF IsSubstring(Lower(keyword), text_lower)
             THEN MatchLoop(keywords, k + 1, text_lower, text_words,
                            Append(found, keyword), missing)
             ELSE IF Lower(keyword) \in text_words
             THEN MatchLoop(keywords, k + 1, text_lower, text_words,
                            Append(found, keyword), missing)
             ELSE MatchLoop(keywords, k + 1, text_lower, text_words,
                            found, Append(missing, keyword))

find_keyword_matches(text, keywords) ==
    LET text_lower == Lower(text)
        toks == word_tokenize(text_lower)
        text_words == {toks[i] : i \in DOMAIN toks}
        r == MatchLoop(keywords, 1, text_lower, text_words, <<>>, <<>>)
    IN  [found |-> r.found,
         missing |-> r.missing,
         match_rate |-> IF keywords # <<>>
                        THEN Rat(Len(r.found), Len(keywords))
                        ELSE RInt(0)]

analyze_text_quality(text) ==
    LET sentences == sent_tokenize_count(text)
        words == word_tokenize(text)
        alnum == SelectSeq(words, IsAlnum)
        unique == {Lower(alnum[i]) : i \in DOMAIN alnum}
    IN  IF words # <<>> /\ Len(alnum) = 0
        THEN Raise("ZeroDivisionError")
        ELSE Ok([word_count |-> Len(alnum),
                 sentence_count |-> sentences,
                 avg_sentence_length |-> IF sentences # 0
                                         THEN Rat(Len(words), sentences)
                                         ELSE RInt(0),
                 unique_words |-> Cardinality(unique),
                 vocabulary_richness |-> IF words # <<>>
                                         THEN Rat(Cardinality(unique), Len(alnum))
                                         ELSE RInt(0)])

(***************************************************************************)
(* backend/utils.py                                                        *)
(***************************************************************************)
NaN == <<"NaN">>       \* an empty spreadsheet cell as pandas reads it

\* str.split(','): the pieces of cell between commas, from position `from`
RECURSIVE SplitComma(_, _)
SplitComma(cell, from) ==
    IF \E i \in from..Len(cell) : cell[i] = ","
    THEN LET c == CHOOSE i \in from..Len(cell) :
                      cell[i] = "," /\ \A j \in from..(i - 1) : cell[j] # ","
         IN  <<SubSeq(cell, from, c - 1)>> \o SplitComma(cell, c + 1)
    ELSE <<SubSeq(cell, from, Len(cell))>>

parse_keywords(keyword_string) ==
    IF keyword_string = NaN \/ keyword_string = <<>> THEN <<>>
    ELSE LET pieces == SplitComma(keyword_string, 1)
             keywords == [i \in DOMAIN pieces |-> Strip(pieces[i])]
             NonEmpty(k) == k # <<>>
         IN  SelectSeq(keywords, NonEmpty)

clamp(score, min_val, max_val) == RMax(min_val, RMin(max_val, score))
normalize_score(score) == clamp(score, RInt(0), RInt(100))

\* the weighted sum forgetting the weights
RECURSIVE UnweightedSum(_, _)
UnweightedSum(scores, weights) ==
    IF scores = <<>> \/ weights = <<>> THEN RInt(0)
    ELSE RAdd(scores[1], UnweightedSum(Tail(scores), Tail(weights)))

RECURSIVE WeightedSum(_, _)
WeightedSum(scores, weights) ==
    IF scores = <<>> \/ weights = <<>> THEN RInt(0)
    ELSE RAdd(RMul(scores[1], weights[1]), WeightedSum(Tail(scores), Tail(weights)))

\* the weighted sum divided by the number of weights instead of their total
AverageOverCount(scores, weights) ==
    IF scores = <<>> \/ weights = <<>> \/ Len(scores) # Len(weights) THEN RInt(0)
    ELSE IF SumSeq(weights) = RInt(0) THEN RInt(0)
    ELSE RDiv(WeightedSum(scores, weights), RInt(Len(weights)))

\* the weighted average whose weighted sum starts at the second pair
AverageSkippingFirst(scores, weights) ==
    IF scores = <<>> \/ weights = <<>> \/ Len(scores) # Len(weights) THEN RInt(0)
    ELSE IF SumSeq(weights) = RInt(0) THEN RInt(0)
    ELSE RDiv(WeightedSum(Tail(scores), Tail(weights)), SumSeq(weights))

\* the weighted average giving 0 as soon as one weight is zero
AverageZeroOnZeroWeight(scores, weights) ==
    IF scores = <<>> \/ weights = <<>> \/ Len(scores) # Len(weights) THEN RInt(0)
    ELSE IF \E i \in DOMAIN weights : weights[i] = RInt(0) THEN RInt(0)
    ELSE RDiv(WeightedSum(scores, weights), SumSeq(weights))

calculate_weighted_average(scores, weights) ==
    IF scores = <<>> \/ weights = <<>> \/ Len(scores) # Len(weights) THEN RInt(0)
    ELSE LET total_weight == SumSeq(weights)
         IN  IF total_weight = RInt(0) THEN RInt(0)
             ELSE RDiv(WeightedSum(scores, weights), total_weight)

\* the status with the lower bound itself counted as too short
StatusMinExclusive(word_count, min_words, max_words) ==
    IF min_words = 0 /\ max_words >= NoLimitMax THEN "no_limit"
    ELSE IF word_count <= min_words THEN "too_short"
    ELSE IF word_count > max_words THEN "too_long"
    ELSE "within_range"

get_word_count_status(word_count, min_words, max_words) ==
    IF min_words = 0 /\ max_words >= NoLimitMax THEN "no_limit"
    ELSE IF word_count < min_words THEN "too_short"
    ELSE IF word_count > max_words THEN "too_long"
    ELSE "within_range"

\* a value of a JSON request body where a transcript is expected: a string, null
\* or a non-zero number
Str(text) == [type |-> "str", text |-> text]
JsonNull == [type |-> "null", text |-> <<>>]
JsonNumber == [type |-> "number", text |-> <<>>]
\* Python's `not value`
Falsy(value) == value.type = "null" \/ (value.type = "str" /\ value.text = <<>>)

ValidationResult(valid, message, word_count) ==
    [valid |-> valid, message |-> message, word_count |-> word_count]

\* validate_transcript rejecting a transcript of exactly the minimum word count
ValidateMinExclusive(transcript) ==
    IF Falsy(transcript)
    THEN Ok(ValidationResult(FALSE, "Transcript is empty", 0))
    ELSE IF transcript.type # "str" THEN Raise("AttributeError")
    ELSE IF Strip(transcript.text) = <<>>
    THEN Ok(ValidationResult(FALSE, "Transcript is empty", 0))
    ELSE LET word_count == SplitCount(transcript.text)
         IN  IF word_count <= MinTranscriptWords
             THEN Ok(ValidationResult(FALSE, "Transcript too short", word_count))
             ELSE IF word_count > MaxTranscriptWords
             THEN Ok(ValidationResult(FALSE, "Transcript too long", word_count))
             ELSE Ok(ValidationResult(TRUE, "Transcript is valid", word_count))

\* the message of a rejection carries word_count; a value that is neither falsy
\* nor a string has no strip() and the call raises
validate_transcript(transcript) ==
    IF Falsy(transcript)
    THEN Ok(ValidationResult(FALSE, "Transcript is empty", 0))
    ELSE IF transcript.type # "str" THEN Raise("AttributeError")
    ELSE IF Strip(transcript.text) = <<>>
    THEN Ok(ValidationResult(FALSE, "Transcript is empty", 0))
    ELSE LET word_count == SplitCount(transcript.text)
         IN  IF word_count < MinTranscriptWords
             THEN Ok(ValidationResult(FALSE, "Transcript too short", word_count))
             ELSE IF word_count > MaxTranscriptWords
             THEN Ok(ValidationResult(FALSE, "Transcript too long", word_count))
             ELSE Ok(ValidationResult(TRUE, "Transcript is valid", word_count))

\* the bands with their lower bounds excluded
CategoryBoundExclusive(score) ==
    IF RLt(RInt(90), score) THEN "Excellent"
    ELSE IF RLt(RInt(80), score) THEN "Very Good"
    ELSE IF RLt(RInt(70), score) THEN "Good"
    ELSE IF RLt(RInt(60), score) THEN "Satisfactory"
    ELSE IF RLt(RInt(50), score) THEN "Fair"
    ELSE "Needs Improvement"

get_score_category(score) ==
    IF RLe(RInt(90), score) THEN "Excellent"
    ELSE IF RLe(RInt(80), score) THEN "Very Good"
    ELSE IF RLe(RInt(70), score) THEN "Good"
    ELSE IF RLe(RInt(60), score) THEN "Satisfactory"
    ELSE IF RLe(RInt(50), score) THEN "Fair"
    ELSE "Needs Improvement"

\* the feedback with a length clause whenever either limit is set
FeedbackLengthEither(score, keywords_found, keywords_missing, semantic_similarity, word_count, min_words, max_words) ==
    [band |-> IF RLe(RInt(90), score) THEN "Excellent performance."
              ELSE IF RLe(RInt(75), score) THEN "Good performance."
              ELSE IF RLe(RInt(60), score) THEN "Satisfactory performance."
              ELSE IF RLe(RInt(40), score) THEN "Needs improvement."
              ELSE "Requires significant improvement.",
     found |-> IF keywords_found = <<>> THEN <<>>
               ELSE IF Len(keywords_found) > 3
               THEN <<"Strong keyword coverage", keywords_found[1],
                      keywords_found[2], Len(keywords_found) - 2>>
               ELSE <<"Found keywords", keywords_found>>,
     missing |-> IF keywords_missing # <<>> /\ Len(keywords_missing) <= 3
                 THEN <<"Consider including", keywords_missing>>
                 ELSE IF keywords_missing # <<>>
                 THEN <<"Missing suggested keywords", Len(keywords_missing)>>
                 ELSE <<>>,
     semantic |-> IF RLe(Rat(3, 4), semantic_similarity)
                  THEN "Strong semantic alignment with criterion."
                  ELSE IF RLe(Rat(1, 2), semantic_similarity)
                  THEN "Moderate semantic relevance."
                  ELSE "Consider addressing this aspect more directly.",
     length |-> IF min_words > 0 \/ max_words < NoLimitMax
                THEN IF word_count < min_words THEN <<"Content is brief", word_count>>
                     ELSE IF word_count > max_words
                     THEN <<"Content is lengthy", word_count>>
                     ELSE <<"Good length", word_count>>
                ELSE <<>>]

format_feedback(score, keywords_found, keywords_missing, semantic_similarity, word_count, min_words, max_words) ==
    [band |-> IF RLe(RInt(90), score) THEN "Excellent performance."
              ELSE IF RLe(RInt(75), score) THEN "Good performance."
              ELSE IF RLe(RInt(60), score) THEN "Satisfactory performance."
              ELSE IF RLe(RInt(40), score) THEN "Needs improvement."
              ELSE "Requires significant improvement.",
     found |-> IF keywords_found = <<>> THEN <<>>
               ELSE IF Len(keywords_found) > 3
               THEN <<"Strong keyword coverage", keywords_found[1],
                      keywords_found[2], Len(keywords_found) - 2>>
               ELSE <<"Found keywords", keywords_found>>,
     missing |-> IF keywords_missing # <<>> /\ Len(keywords_missing) <= 3
                 THEN <<"Consider including", keywords_missing>>
                 ELSE IF keywords_missing # <<>>
                 THEN <<"Missing suggested keywords", Len(keywords_missing)>>
                 ELSE <<>>,
     semantic |-> IF RLe(Rat(3, 4), semantic_similarity)
                  THEN "Strong semantic alignment with criterion."
                  ELSE IF RLe(Rat(1, 2), semantic_similarity)
                  THEN "Moderate semantic relevance."
                  ELSE "Consider addressing this aspect more directly.",
     length |-> IF min_words > 0 /\ max_words < NoLimitMax
                THEN IF word_count < min_words THEN <<"Content is brief", word_count>>
                     ELSE IF word_count > max_words
                     THEN <<"Content is lengthy", word_count>>
                     ELSE <<"Good length", word_count>>
                ELSE <<>>]

(***************************************************************************)
(* backend/scoring_engine.py                                               *)
(***************************************************************************)
\* row.get(column, default) on a rubric row
RowGet(row, column, default) ==
    IF column \in DOMAIN row THEN row[column] ELSE default

\* sum(1 for kw in keywords if kw.lower() in transcript_lower)
RECURSIVE PresentCount(_, _)
PresentCount(keywords, transcript_lower) ==
    IF keywords = <<>> THEN 0
    ELSE (IF IsSubstring(Lower(keywords[1]), transcript_lower) THEN 1 ELSE 0)
         + PresentCount(Tail(keywords), transcript_lower)

\* sum(transcript_lower.count(kw.lower()) for kw in keywords)
RECURSIVE TotalOccurrences(_, _)
TotalOccurrences(keywords, transcript_lower) ==
    IF keywords = <<>> THEN 0
    ELSE StrCount(Lower(keywords[1]), transcript_lower)
         + TotalOccurrences(Tail(keywords), transcript_lower)

\* the compliance term with a penalty that grows with the overage
LengthAwardByOverage(word_count, min_words, max_words) ==
    IF min_words > 0 \/ max_words < NoLimitMax
    THEN IF min_words <= word_count /\ word_count <= max_words THEN RInt(30)
         ELSE IF word_count < min_words
         THEN LET ratio == IF min_words > 0 THEN Rat(word_count, min_words)
                           ELSE RInt(1)
              IN  RMul(RInt(30), RMin(ratio, RInt(1)))
         ELSE RMul(RInt(30), Rat(max_words, word_count))
    ELSE RInt(30)

\* the word count compliance term of _rule_based_score
LengthAward(word_count, min_words, max_words) ==
    IF min_words > 0 \/ max_words < NoLimitMax
    THEN IF min_words <= word_count /\ word_count <= max_words THEN RInt(30)
         ELSE IF word_count < min_words
         THEN LET ratio == IF min_words > 0 THEN Rat(word_count, min_words)
                           ELSE RInt(1)
              IN  RMul(RInt(30), RMin(ratio, RInt(1)))
         ELSE RInt(20)
    ELSE RInt(30)

\* the presence term without a base score for an empty keyword list
PresenceAwardNoBase(transcript_lower, keywords) ==
    IF keywords # <<>>
    THEN RMul(Rat(PresentCount(keywords, transcript_lower), Len(keywords)), RInt(70))
    ELSE RInt(0)

\* the keyword presence term of _rule_based_score
PresenceAward(transcript_lower, keywords) ==
    IF keywords # <<>>
    THEN RMul(Rat(PresentCount(keywords, transcript_lower), Len(keywords)), RInt(70))
    ELSE RInt(35)

_rule_based_score(transcript_lower, keywords, min_words, max_words) ==
    normalize_score(RAdd(PresenceAward(transcript_lower, keywords),
                         LengthAward(SplitCount(transcript_lower),
                                     min_words, max_words)))

\* the curve with a bonus of five points in the top band
SemanticBoosted(similarity) ==
    LET score == IF RLe(Rat(7, 10), similarity)
                 THEN RAdd(RInt(75), RMul(RSub(similarity, Rat(7, 10)), RInt(100)))
                 ELSE IF RLe(Rat(4, 10), similarity)
                 THEN RAdd(RInt(40), RMul(RSub(similarity, Rat(4, 10)), RInt(100)))
                 ELSE RMul(similarity, RInt(100))
    IN  normalize_score(score)

\* the curve with a flatter top band
SemanticFlatTop(similarity) ==
    LET score == IF RLe(Rat(7, 10), similarity)
                 THEN RAdd(RInt(70), RMul(RSub(similarity, Rat(7, 10)), RInt(50)))
                 ELSE IF RLe(Rat(4, 10), similarity)
                 THEN RAdd(RInt(40), RMul(RSub(similarity, Rat(4, 10)), RInt(100)))
                 ELSE RMul(similarity, RInt(100))
    IN  normalize_score(score)

\* the curve of _semantic_score applied to the oracle's similarity
_semantic_score(similarity) ==
    LET score == IF RLe(Rat(7, 10), similarity)
                 THEN RAdd(RInt(70), RMul(RSub(similarity, Rat(7, 10)), RInt(100)))
                 ELSE IF RLe(Rat(4, 10), similarity)
                 THEN RAdd(RInt(40), RMul(RSub(similarity, Rat(4, 10)), RInt(100)))
                 ELSE RMul(similarity, RInt(100))
    IN  normalize_score(score)

\* the score with a density term that keeps growing with the occurrences
DensityUncapped(transcript_lower, keywords) ==
    IF keywords = <<>> THEN RInt(50)
    ELSE LET total_occurrences == TotalOccurrences(keywords, transcript_lower)
             coverage == Rat(PresentCount(keywords, transcript_lower), Len(keywords))
         IN  normalize_score(RAdd(RInt(total_occurrences * 10),
                                  RMul(coverage, RInt(50))))

_rubric_driven_score(transcript_lower, keywords) ==
    IF keywords = <<>> THEN RInt(50)
    ELSE LET total_occurrences == TotalOccurrences(keywords, transcript_lower)
             density_score == IF total_occurrences > 0
                              THEN RMin(RInt(50), RInt(total_occurrences * 10))
                              ELSE RInt(0)
             coverage == Rat(PresentCount(keywords, transcript_lower), Len(keywords))
         IN  normalize_score(RAdd(density_score, RMul(coverage, RInt(50))))

\* the three sub-scores given equal shares
CombinedEqualShares(rule_score, semantic_score, rubric_score) ==
    RDiv(RAdd(RAdd(rule_score, semantic_score), rubric_score), RInt(3))

\* (rule * 0.4) + (semantic * 0.4) + (rubric * 0.2)
CombinedScore(rule_score, semantic_score, rubric_score) ==
    RAdd(RAdd(RMul(rule_score, Rat(4, 10)), RMul(semantic_score, Rat(4, 10))),
         RMul(rubric_score, Rat(2, 10)))

\* similarity is what calculate_similarity(transcript, description) returned
_score_criterion(transcript, transcript_lower, criterion_name, similarity, keywords, weight, min_words, max_words) ==
    LET rule_score == _rule_based_score(transcript_lower, keywords, min_words, max_words)
        semantic_score == _semantic_score(similarity)
        rubric_score == _rubric_driven_score(transcript_lower, keywords)
        final_score == normalize_score(
                           CombinedScore(rule_score, semantic_score, rubric_score))
        keyword_matches == find_keyword_matches(transcript, keywords)
        word_count == count_words(transcript)
    IN  [criterion |-> criterion_name,
         score |-> Round2(final_score),
         weight |-> weight,
         keywords_found |-> keyword_matches.found,
         keywords_missing |-> keyword_matches.missing,
         keyword_match_rate |-> Round2(keyword_matches.match_rate),
         semantic_similarity |-> Round2(similarity),
         word_count_status |-> get_word_count_status(word_count, min_words, max_words),
         feedback |-> format_feedback(final_score, keyword_matches.found,
                                      keyword_matches.missing, similarity,
                                      word_count, min_words, max_words),
         score_breakdown |-> [rule_based |-> Round2(rule_score),
                              semantic |-> Round2(semantic_score),
                              rubric_driven |-> Round2(rubric_score)]]

\* what an oracle tells transcripts apart by: the first character
TextClass(text) == IF text = <<>> THEN "empty" ELSE text[1]
\* calculate_similarity: the oracle's value for the transcript and the description
calculate_similarity(sim, text1, text2) == sim[<<TextClass(text1), text2>>]

\* the loop putting each criterion's result in front of criteria_scores
RECURSIVE ScoreRowsReversed(_, _, _, _, _)
ScoreRowsReversed(rubric_rows, sim, transcript, transcript_lower, n) ==
    IF n = 0 THEN <<>>
    ELSE LET row == rubric_rows[n]
         IN  <<_score_criterion(transcript, transcript_lower, row.Criterion,
                                calculate_similarity(sim, transcript, row.Description),
                                parse_keywords(row.Keywords), row.Weight,
                                RowGet(row, "Min_Words", 0),
                                RowGet(row, "Max_Words", NoLimitMax))>>
             \o ScoreRowsReversed(rubric_rows, sim, transcript, transcript_lower, n - 1)

\* the loop of score_transcript over the first n rubric rows, appending each
\* criterion's result to criteria_scores
RECURSIVE ScoreRows(_, _, _, _, _)
ScoreRows(rubric_rows, sim, transcript, transcript_lower, n) ==
    IF n = 0 THEN <<>>
    ELSE LET row == rubric_rows[n]
         IN  Append(ScoreRows(rubric_rows, sim, transcript, transcript_lower, n - 1),
                    _score_criterion(transcript, transcript_lower, row.Criterion,
                                     calculate_similarity(sim, transcript,
                                                          row.Description),
                                     parse_keywords(row.Keywords), row.Weight,
                                     RowGet(row, "Min_Words", 0),
                                     RowGet(row, "Max_Words", NoLimitMax)))

OverallScore(criteria_scores) ==
    calculate_weighted_average([k \in DOMAIN criteria_scores |-> criteria_scores[k].score],
                               [k \in DOMAIN criteria_scores |->
                                    RInt(criteria_scores[k].weight)])

\* the result dictionary of score_transcript: a failure of analyze_text_quality
\* leaves the call before it is built
ScoreReport(text_quality, criteria_scores) ==
    IF Raised(text_quality) THEN text_quality
    ELSE Ok([overall_score |-> Round2(OverallScore(criteria_scores)),
             word_count |-> text_quality.val.word_count,
             criteria_scores |-> criteria_scores,
             text_quality |-> text_quality.val])

\* the columns score_transcript reads with row[...], and get_rubric_info does
ScoredColumns == {"Criterion", "Description", "Keywords", "Weight"}
InfoColumns == {"Criterion", "Keywords", "Weight"}
\* some row lacks one of the columns: reading it raises KeyError
LacksColumn(rows, columns) ==
    \E k \in DOMAIN rows : ~(columns \subseteq DOMAIN rows[k])

\* ScoringEngine.score_transcript on an engine whose rubric is rubric_rows
score_transcript(rubric_rows, sim, raw) ==
    IF LacksColumn(rubric_rows, ScoredColumns)
    THEN IF Raised(analyze_text_quality(preprocess_text(raw)))
         THEN analyze_text_quality(preprocess_text(raw))
         ELSE Raise("KeyError")
    ELSE
    LET Scored(transcript, transcript_lower) ==
            {ScoreReport(text_quality, criteria_scores) :
                 text_quality \in {analyze_text_quality(transcript)},
                 criteria_scores \in {ScoreRows(rubric_rows, sim, transcript,
                                                transcript_lower, Len(rubric_rows))}}
        reports == UNION {Scored(transcript, transcript_lower) :
                              transcript \in {preprocess_text(raw)},
                              transcript_lower \in {Lower(preprocess_text(raw))}}
    IN  CHOOSE report \in reports : TRUE

(***************************************************************************)
(* State.                                                                  *)
(*   input, ret       the arguments a function is called with, and what    *)
(*                    the call returned (Spec)                             *)
(*   scoring_engine   app.py's global                                      *)
(*   _scoring_engine  scoring_engine.py's singleton                        *)
(*   _nlp_processor   nlp_processor.py's singleton                         *)
(*   rubric_source    the Rubric sheet load_rubric reads                   *)
(*   constructed      how many instances each constructor has created      *)
(*   pc, frame        position and locals of each thread (SpecInit)        *)
(***************************************************************************)
VARIABLES input, ret,
          scoring_engine, _scoring_engine, _nlp_processor, rubric_source, constructed,
          pc, frame,
          oracle, calls,
          request, response, invoked

fnVars == <<input, ret>>
globalVars == <<scoring_engine, _scoring_engine, _nlp_processor, rubric_source,
                constructed>>
threadVars == <<pc, frame>>
engineVars == <<oracle, calls>>
apiVars == <<request, response, invoked>>
vars == <<fnVars, globalVars, threadVars, engineVars, apiVars>>

None == [id |-> 0]     \* Python's None where an instance is expected
\* the rubric source: a sheet that cannot be read, or one holding these rows
Missing == [readable |-> FALSE, rows |-> <<>>]
Sheet(rows) == [readable |-> TRUE, rows |-> rows]

\* the variables a specification does not use
NoGlobals ==
    /\ scoring_engine = None /\ _scoring_engine = None /\ _nlp_processor = None
    /\ rubric_source = Missing
    /\ constructed = [nlp |-> 0, engine |-> 0]
NoThreads == pc = <<>> /\ frame = <<>>
NoCall == input = Pending /\ ret = Pending
NoEngineCalls == oracle = <<>> /\ calls = <<>>
NoRequests == request = Pending /\ response = Pending /\ invoked = {}

(***************************************************************************)
(* The inputs the functions are called with.                               *)
(***************************************************************************)
SeqsUpTo(S, n) == UNION {[1..m -> S] : m \in 0..n}

TextChars == {"a", "b", "A", " ", "!"}
Texts == SeqsUpTo(TextChars, MaxTextLen)
\* the texts keywords are looked up in
MatchChars == {"a", "b", "A", " "}
MatchTexts == SeqsUpTo(MatchChars, MaxTextLen)

KeywordPool == {<<"a">>, <<"A", "b">>, <<"b", " ", "a">>}
KeywordLists == SeqsUpTo(KeywordPool, MaxKeywords)

Similarities == {Rat(k, SimSteps) : k \in 0..SimSteps}
\* similarities of more than two decimals, next to the thresholds of the curve
FineSimilarities == {Rat(3999, 10000), Rat(6999, 10000), Rat(7499, 10000), Rat(1, 3)}

WordBounds == (0..MaxWordBound) \cup {NoLimitMax - 1, NoLimitMax, NoLimitMax + 1}
WordCounts == (0..(MaxWordBound + 1)) \cup {NoLimitMax, NoLimitMax + 1}

\* <<min_words, max_words>> of the criteria the scorer is called with
LimitPool == {<<0, NoLimitMax>>, <<0, 1>>, <<1, 2>>, <<3, NoLimitMax>>,
              <<8, NoLimitMax - 1>>, <<7, NoLimitMax - 1>>, <<0, NoLimitMax + 1>>}

\* transcripts (already preprocessed) the criterion scorer is called with
SampleTexts ==
    {<<>>,
     <<"a">>,
     <<"!">>,
     <<"b", " ", "a", " ", "b", " ", "a">>,
     <<"a", "a", "a", "a", "a", "a">>,
     <<"a", " ", "A", "b", "!", " ", "b", " ", "a", "b">>}

\* <<score, weight>> pairs the weighted average is called with
PairPool == {<<RInt(0), 1>>, <<Rat(125, 2), 2>>, <<RInt(100), 0>>, <<RInt(100), 1>>}
PairLists == SeqsUpTo(PairPool, MaxPairs)
PermsOf(n) == {p \in [1..n -> 1..n] : \A i \in 1..n : \E j \in 1..n : p[j] = i}

\* the rubric cells and rows a rubric is made of
KeywordCells == {NaN,
                 <<"a">>,
                 <<"a", ",", " ", "A", "b">>,
                 <<"b", " ", "a", ",", ",", " ", "z">>}
Descriptions == {"d1", "d2"}
RowPool ==
    {[Criterion |-> "c1", Description |-> "d1", Keywords |-> <<"a", ",", " ", "A", "b">>,
      Weight |-> 1, Min_Words |-> 1, Max_Words |-> 2],
     [Criterion |-> "c2", Description |-> "d2", Keywords |-> NaN,
      Weight |-> 2],
     [Criterion |-> "c3", Description |-> "d2",
      Keywords |-> <<"b", " ", "a", ",", ",", " ", "z">>,
      Weight |-> 0, Min_Words |-> 0, Max_Words |-> NoLimitMax],
     [Criterion |-> "c4", Description |-> "d1", Keywords |-> <<"a">>,
      Weight |-> 2, Min_Words |-> 3, Max_Words |-> NoLimitMax - 1]}
Rubrics == SeqsUpTo(RowPool, MaxRows)

\* raw transcripts score_transcript is called with
RawPool ==
    {<<>>,
     <<" ", "a", " ", " ", "A", "b", "!", " ">>,
     <<"a", " ", "@", " ", "b", " ", "a">>,
     <<"!", " ", "!">>,
     <<"z", "!", " ", "a", "a", " ", "a", "b", " ", "b", " ", "a">>}

\* an oracle: the similarity of every (transcript, description) pair, a fixed
\* function; this one gives s or 1 - s, by the transcript's class and the description
TextClasses == {"empty"} \cup Letters \cup KeptPunct
OracleOf(s) ==
    [p \in TextClasses \X Descriptions |->
        IF (p[1] \in LowerLetters) = (p[2] = "d1") THEN s ELSE RSub(RInt(1), s)]

\* the scores categories are asked for: the thresholds, a hundredth to either side of
\* each, and values inside and outside [0, 100]
CategoryThresholds == {50, 60, 70, 80, 90}
CategoryScores ==
    UNION {{RInt(b), Rat(100 * b - 1, 100), Rat(100 * b + 1, 100)} :
               b \in CategoryThresholds}
    \cup {RInt(-1), RInt(0), RInt(45), Rat(111, 2), RInt(65), RInt(75), RInt(85),
          RInt(95), RInt(100), RInt(101)}

\* transcript.lower() of the sample transcripts
LoweredTexts == {Lower(t) : t \in SampleTexts}

\* keyword lists for the density term, one keyword able to overlap itself
DensityKeywordLists == SeqsUpTo(KeywordPool \cup {<<"a", "a">>}, MaxKeywords)

\* the arguments format_feedback is called with: scores and similarities at and
\* next to its thresholds, up to five keywords found, up to four missing
FeedbackScores ==
    UNION {{RInt(b), Rat(100 * b - 1, 100)} : b \in {40, 60, 75, 90}} \cup {RInt(100)}
FeedbackSimilarities == {RInt(0), Rat(4999, 10000), Rat(1, 2), Rat(7499, 10000),
                         Rat(3, 4)}
FeedbackKeywords == <<<<"a">>, <<"b">>, <<"a", "b">>, <<"b", "a">>, <<"b", "b">>>>
FeedbackFound == {SubSeq(FeedbackKeywords, 1, n) : n \in {0, 3, 4, 5}}
FeedbackMissing == {SubSeq(FeedbackKeywords, 1, n) : n \in {0, 3, 4}}
FeedbackLengths == {1, 2, 3} \X {0, 1, 2} \X {2, NoLimitMax - 1, NoLimitMax}

Inputs ==
    [fn : {"find_keyword_matches"}, text : MatchTexts, keywords : KeywordLists]
    \cup [fn : {"analyze_text_quality"}, text : Texts]
    \cup [fn : {"get_word_count_status"}, word_count : WordCounts,
          min_words : WordBounds, max_words : WordBounds]
    \cup UNION {{[fn |-> "calculate_weighted_average", pairs |-> ps, perm |-> p] :
                     p \in PermsOf(Len(ps))} : ps \in PairLists}
    \cup [fn : {"_score_criterion"}, transcript : SampleTexts, keywords : KeywordLists,
          limits : LimitPool, similarity : Similarities \cup FineSimilarities]
    \cup [fn : {"score_transcript"}, raw : RawPool, rubric : Rubrics,
          similarity : Similarities]
    \cup [fn : {"get_score_category"}, score : CategoryScores, other : CategoryScores]
    \cup [fn : {"_rubric_driven_score"}, transcript_lower : LoweredTexts,
          keywords : DensityKeywordLists]
    \cup [fn : {"format_feedback"}, score : FeedbackScores,
          keywords_found : FeedbackFound, keywords_missing : FeedbackMissing,
          semantic_similarity : FeedbackSimilarities, lengths : FeedbackLengths]
    \cup [fn : {"_semantic_score"}, similarity : Similarities \cup FineSimilarities,
          other : Similarities \cup FineSimilarities]
    \cup [fn : {"_rule_based_score"}, transcript_lower : LoweredTexts,
          keywords : KeywordLists, min_words : WordBounds, max_words : WordBounds]

Init ==
    /\ input \in Inputs
    /\ ret = Pending
    /\ NoGlobals /\ NoThreads /\ NoEngineCalls /\ NoRequests

(***************************************************************************)
(* One action per function: the call with the drawn arguments.             *)
(***************************************************************************)
Call_find_keyword_matches ==
    /\ input.fn = "find_keyword_matches" /\ ret = Pending
    /\ ret' = [fn |-> input.fn,
               value |-> find_keyword_matches(input.text, input.keywords)]
    /\ UNCHANGED <<input, globalVars, threadVars, engineVars, apiVars>>

Call_analyze_text_quality ==
    /\ input.fn = "analyze_text_quality" /\ ret = Pending
    /\ ret' = [fn |-> input.fn, value |-> analyze_text_quality(input.text)]
    /\ UNCHANGED <<input, globalVars, threadVars, engineVars, apiVars>>

Call_get_word_count_status ==
    /\ input.fn = "get_word_count_status" /\ ret = Pending
    /\ ret' = [fn |-> input.fn,
               value |-> get_word_count_status(input.word_count, input.min_words,
                                               input.max_words)]
    /\ UNCHANGED <<input, globalVars, threadVars, engineVars, apiVars>>

PairScores(ps) == [i \in DOMAIN ps |-> ps[i][1]]
PairWeights(ps) == [i \in DOMAIN ps |-> RInt(ps[i][2])]
Permuted(ps, p) == [i \in DOMAIN ps |-> ps[p[i]]]

\* the call on the pairs as given, and the call on the same pairs permuted
Call_calculate_weighted_average ==
    /\ input.fn = "calculate_weighted_average" /\ ret = Pending
    /\ ret' = [fn |-> input.fn,
               value |-> calculate_weighted_average(PairScores(input.pairs),
                                                    PairWeights(input.pairs)),
               permuted |-> calculate_weighted_average(
                                PairScores(Permuted(input.pairs, input.perm)),
                                PairWeights(Permuted(input.pairs, input.perm)))]
    /\ UNCHANGED <<input, globalVars, threadVars, engineVars, apiVars>>

Call_score_criterion ==
    /\ input.fn = "_score_criterion" /\ ret = Pending
    /\ ret' = [fn |-> input.fn,
               value |-> _score_criterion(input.transcript, Lower(input.transcript),
                                          "c", input.similarity, input.keywords,
                                          1, input.limits[1],
                                          input.limits[2])]
    /\ UNCHANGED <<input, globalVars, threadVars, engineVars, apiVars>>

Call_score_transcript ==
    /\ input.fn = "score_transcript" /\ ret = Pending
    /\ ret' = [fn |-> input.fn,
               value |-> score_transcript(input.rubric, OracleOf(input.similarity),
                                          input.raw)]
    /\ UNCHANGED <<input, globalVars, threadVars, engineVars, apiVars>>

\* the call on a score, and the call on another score
Call_get_score_category ==
    /\ input.fn = "get_score_category" /\ ret = Pending
    /\ ret' = [fn |-> input.fn,
               value |-> get_score_category(input.score),
               other |-> get_score_category(input.other)]
    /\ UNCHANGED <<input, globalVars, threadVars, engineVars, apiVars>>

Call_rule_based_score ==
    /\ input.fn = "_rule_based_score" /\ ret = Pending
    /\ ret' = [fn |-> input.fn,
               value |-> _rule_based_score(input.transcript_lower, input.keywords,
                                           input.min_words, input.max_words)]
    /\ UNCHANGED <<input, globalVars, threadVars, engineVars, apiVars>>

Call_rubric_driven_score ==
    /\ input.fn = "_rubric_driven_score" /\ ret = Pending
    /\ ret' = [fn |-> input.fn,
               value |-> _rubric_driven_score(input.transcript_lower, input.keywords)]
    /\ UNCHANGED <<input, globalVars, threadVars, engineVars, apiVars>>

\* lengths is <<word_count, min_words, max_words>>
Call_format_feedback ==
    /\ input.fn = "format_feedback" /\ ret = Pending
    /\ ret' = [fn |-> input.fn,
               value |-> format_feedback(input.score, input.keywords_found,
                                         input.keywords_missing,
                                         input.semantic_similarity, input.lengths[1],
                                         input.lengths[2], input.lengths[3])]
    /\ UNCHANGED <<input, globalVars, threadVars, engineVars, apiVars>>

\* the (score, similarity) pair returned for a similarity, and the score for another
Call_semantic_score ==
    /\ input.fn = "_semantic_score" /\ ret = Pending
    /\ ret' = [fn |-> input.fn,
               value |-> <<_semantic_score(input.similarity), input.similarity>>,
               other |-> _semantic_score(input.other)]
    /\ UNCHANGED <<input, globalVars, threadVars, engineVars, apiVars>>

Next ==
    \/ Call_find_keyword_matches
    \/ Call_analyze_text_quality
    \/ Call_get_word_count_status
    \/ Call_calculate_weighted_average
    \/ Call_score_criterion
    \/ Call_score_transcript
    \/ Call_get_score_category
    \/ Call_rule_based_score
    \/ Call_rubric_driven_score
    \/ Call_format_feedback
    \/ Call_semantic_score

Spec == Init /\ [][Next]_vars

(***************************************************************************)
(* SpecInit: the lazily created singletons under concurrent requests.      *)
(* Each thread runs init_scoring_engine, get_scoring_engine or             *)
(* get_nlp_processor; a step is one read or write of a global, or one      *)
(* constructor body.  No lock guards the globals.                          *)
(***************************************************************************)
\* the request threads of the server (app.run(threaded=True))
Threads == {"t1", "t2"}
EntryPoints == {"init_scoring_engine", "get_scoring_engine", "get_nlp_processor"}
\* the sheet setup_rubric.py writes, cut to two rows
DefaultRubric ==
    <<[Criterion |-> "c1", Description |-> "d1", Keywords |-> <<"a", ",", " ", "A", "b">>,
       Weight |-> 1, Min_Words |-> 1, Max_Words |-> 2],
      [Criterion |-> "c2", Description |-> "d2", Keywords |-> NaN,
       Weight |-> 2, Min_Words |-> 0, Max_Words |-> NoLimitMax]>>
SourcePool == {Missing, Sheet(DefaultRubric)}

\* entry: the function called; n: calls made so far; inst, nlp: the instance under
\* construction and its self.nlp; value, exc: what the last call returned or raised
IdleFrame == [entry |-> "none", n |-> 0, inst |-> None, nlp |-> None, value |-> None,
              exc |-> "none"]

InitInit ==
    /\ NoCall /\ NoEngineCalls /\ NoRequests
    /\ scoring_engine = None /\ _scoring_engine = None /\ _nlp_processor = None
    /\ rubric_source \in SourcePool
    /\ constructed = [nlp |-> 0, engine |-> 0]
    /\ pc = [t \in Threads |-> "idle"]
    /\ frame = [t \in Threads |-> IdleFrame]

Goto(t, label) == pc' = [pc EXCEPT ![t] = label]
\* the call of thread t returns to its caller
Return(t) == pc' = [pc EXCEPT ![t] = "idle"]
\* the frame of a finished call: its locals are gone
Finished(f, value, exc) == [IdleFrame EXCEPT !.n = f.n, !.value = value, !.exc = exc]

\* a request thread enters one of the three functions
Enter(t) ==
    /\ pc[t] = "idle"
    /\ frame[t].n < MaxEnters
    /\ \E e \in EntryPoints :
          /\ frame' = [frame EXCEPT ![t] = [IdleFrame EXCEPT !.entry = e,
                                                             !.n = frame[t].n + 1]]
          /\ Goto(t, CASE e = "init_scoring_engine" -> "ise_check"
                       [] e = "get_scoring_engine" -> "gse_check"
                       [] e = "get_nlp_processor" -> "gnp_check")
    /\ UNCHANGED <<fnVars, engineVars, apiVars, globalVars>>

\* init_scoring_engine: if scoring_engine is None
ise_check(t) ==
    /\ pc[t] = "ise_check"
    /\ IF scoring_engine = None
       THEN Goto(t, "gse_check") /\ UNCHANGED frame
       ELSE Return(t) /\ frame' = [frame EXCEPT ![t] = Finished(@, None, "none")]
    /\ UNCHANGED <<fnVars, engineVars, apiVars, globalVars>>

\* get_scoring_engine: if _scoring_engine is None, ScoringEngine() starts
gse_check(t) ==
    /\ pc[t] = "gse_check"
    /\ IF _scoring_engine = None THEN Goto(t, "gnp_check") ELSE Goto(t, "gse_return")
    /\ UNCHANGED <<fnVars, engineVars, apiVars, globalVars, frame>>

\* get_nlp_processor: if _nlp_processor is None
gnp_check(t) ==
    /\ pc[t] = "gnp_check"
    /\ IF _nlp_processor = None THEN Goto(t, "nlp_new") ELSE Goto(t, "gnp_return")
    /\ UNCHANGED <<fnVars, engineVars, apiVars, globalVars, frame>>

\* NLPProcessor(): the constructor loads the model
nlp_new(t) ==
    /\ pc[t] = "nlp_new"
    /\ constructed' = [constructed EXCEPT !.nlp = @ + 1]
    /\ frame' = [frame EXCEPT ![t].nlp = [id |-> constructed.nlp + 1]]
    /\ Goto(t, "gnp_assign")
    /\ UNCHANGED <<fnVars, engineVars, apiVars, scoring_engine, _scoring_engine, _nlp_processor,
                   rubric_source>>

\* _nlp_processor = NLPProcessor()
gnp_assign(t) ==
    /\ pc[t] = "gnp_assign"
    /\ _nlp_processor' = frame[t].nlp
    /\ Goto(t, "gnp_return")
    /\ UNCHANGED <<fnVars, engineVars, apiVars, scoring_engine, _scoring_engine, rubric_source,
                   constructed, frame>>

\* return _nlp_processor; inside ScoringEngine.__init__ it becomes self.nlp
gnp_return(t) ==
    /\ pc[t] = "gnp_return"
    /\ IF frame[t].entry = "get_nlp_processor"
       THEN /\ frame' = [frame EXCEPT ![t] = Finished(@, _nlp_processor, "none")]
            /\ Return(t)
       ELSE /\ frame' = [frame EXCEPT ![t].nlp = _nlp_processor]
            /\ Goto(t, "load_rubric")
    /\ UNCHANGED <<fnVars, engineVars, apiVars, globalVars>>

\* self.rubric = load_rubric(): raises when the sheet cannot be read, and the
\* exception leaves get_scoring_engine and init_scoring_engine; otherwise the
\* constructor completes and the new ScoringEngine exists
load_rubric(t) ==
    /\ pc[t] = "load_rubric"
    /\ IF ~rubric_source.readable
       THEN /\ frame' = [frame EXCEPT ![t] = Finished(@, None, "FileNotFoundError")]
            /\ Return(t)
            /\ UNCHANGED constructed
       ELSE /\ constructed' = [constructed EXCEPT !.engine = @ + 1]
            /\ frame' = [frame EXCEPT ![t].inst =
                             [id |-> constructed.engine + 1, nlp |-> frame[t].nlp.id,
                              rubric |-> rubric_source.rows]]
            /\ Goto(t, "gse_assign")
    /\ UNCHANGED <<fnVars, engineVars, apiVars, scoring_engine, _scoring_engine, _nlp_processor,
                   rubric_source>>

\* _scoring_engine = ScoringEngine()
gse_assign(t) ==
    /\ pc[t] = "gse_assign"
    /\ _scoring_engine' = frame[t].inst
    /\ Goto(t, "gse_return")
    /\ UNCHANGED <<fnVars, engineVars, apiVars, scoring_engine, _nlp_processor, rubric_source,
                   constructed, frame>>

\* return _scoring_engine
gse_return(t) ==
    /\ pc[t] = "gse_return"
    /\ IF frame[t].entry = "get_scoring_engine"
       THEN /\ frame' = [frame EXCEPT ![t] = Finished(@, _scoring_engine, "none")]
            /\ Return(t)
       ELSE /\ frame' = [frame EXCEPT ![t].value = _scoring_engine]
            /\ Goto(t, "ise_assign")
    /\ UNCHANGED <<fnVars, engineVars, apiVars, globalVars>>

\* scoring_engine = get_scoring_engine()
ise_assign(t) ==
    /\ pc[t] = "ise_assign"
    /\ scoring_engine' = frame[t].value
    /\ frame' = [frame EXCEPT ![t] = Finished(@, None, "none")]
    /\ Return(t)
    /\ UNCHANGED <<fnVars, engineVars, apiVars, _scoring_engine, _nlp_processor, rubric_source,
                   constructed>>

NextInit ==
    \E t \in Threads :
        \/ Enter(t)
        \/ ise_check(t)
        \/ gse_check(t)
        \/ gnp_check(t)
        \/ nlp_new(t)
        \/ gnp_assign(t)
        \/ gnp_return(t)
        \/ load_rubric(t)
        \/ gse_assign(t)
        \/ gse_return(t)
        \/ ise_assign(t)

SpecInit == InitInit /\ [][NextInit]_vars

(***************************************************************************)
(* One constructed engine answering calls one after another: SpecEngine.   *)
(* calls is the history of the calls made and what each returned.          *)
(***************************************************************************)
RowNamed(criterion) == CHOOSE row \in RowPool : row.Criterion = criterion
EngineRubrics == {DefaultRubric, <<RowNamed("c4"), RowNamed("c3"), RowNamed("c1")>>}
EngineOracles == {OracleOf(Rat(3, 10)), OracleOf(Rat(4, 5))}

InitEngine ==
    /\ NoCall /\ NoThreads /\ NoRequests
    /\ \E rows \in EngineRubrics :
          /\ rubric_source = Sheet(rows)
          /\ _scoring_engine = [id |-> 1, nlp |-> 1, rubric |-> rows]
    /\ scoring_engine = _scoring_engine
    /\ _nlp_processor = [id |-> 1]
    /\ constructed = [nlp |-> 1, engine |-> 1]
    /\ oracle \in EngineOracles
    /\ calls = <<>>

\* the rows of an iterator over the rubric that an earlier scoring call used up
iterrows_exhausted ==
    IF \E i \in DOMAIN calls : calls[i].fn = "score_transcript"
    THEN <<>>
    ELSE _scoring_engine.rubric

\* self.rubric.iterrows(): the rows of the engine's rubric, in their order
iterrows == _scoring_engine.rubric

RECURSIVE WeightTotal(_)
WeightTotal(rows) == IF rows = <<>> THEN 0 ELSE rows[1].Weight + WeightTotal(Tail(rows))

get_rubric_info ==
    [criteria_count |-> Len(_scoring_engine.rubric),
     total_weight |-> WeightTotal(_scoring_engine.rubric),
     criteria |-> [k \in DOMAIN iterrows |->
                      [name |-> iterrows[k].Criterion,
                       weight |-> iterrows[k].Weight,
                       keyword_count |-> Len(parse_keywords(iterrows[k].Keywords))]]]

\* scoring_engine.score_transcript(raw)
engine_score_transcript ==
    /\ Len(calls) < MaxCalls
    /\ \E raw \in RawPool :
          calls' = Append(calls, [fn |-> "score_transcript", raw |-> raw,
                                  out |-> score_transcript(iterrows, oracle, raw)])
    /\ UNCHANGED <<fnVars, globalVars, threadVars, oracle, apiVars>>

\* scoring_engine.get_rubric_info()
engine_get_rubric_info ==
    /\ Len(calls) < MaxCalls
    /\ calls' = Append(calls, [fn |-> "get_rubric_info", raw |-> <<>>,
                               out |-> Ok(get_rubric_info)])
    /\ UNCHANGED <<fnVars, globalVars, threadVars, oracle, apiVars>>

NextEngine == engine_score_transcript \/ engine_get_rubric_info

SpecEngine == InitEngine /\ [][NextEngine]_vars

(***************************************************************************)
(* Calls of several request threads on one engine, interleaved:            *)
(* SpecParallel.  A step is one statement of the called method; frame[t]   *)
(* holds the locals of thread t's call (transcript, text_quality,          *)
(* criteria_scores) and, once the call is over, what it returned.          *)
(***************************************************************************)
IdleCall == [fn |-> "none", raw |-> <<>>, transcript |-> <<>>, text_quality |-> Pending,
             criteria_scores |-> <<>>, out |-> Pending]

InitParallel ==
    /\ NoCall /\ NoRequests
    /\ \E rows \in EngineRubrics :
          /\ rubric_source = Sheet(rows)
          /\ _scoring_engine = [id |-> 1, nlp |-> 1, rubric |-> rows]
    /\ scoring_engine = _scoring_engine
    /\ _nlp_processor = [id |-> 1]
    /\ constructed = [nlp |-> 1, engine |-> 1]
    /\ oracle \in EngineOracles
    /\ calls = <<>>
    /\ pc = [t \in Threads |-> "idle"]
    /\ frame = [t \in Threads |-> IdleCall]

\* the total number of rows the calls of all threads have taken so far: the
\* position of a row iterator that the calls would share
RECURSIVE RowsTaken(_)
RowsTaken(ts) ==
    IF ts = {} THEN 0
    ELSE LET u == CHOOSE u \in ts : TRUE
         IN  Len(frame[u].criteria_scores) + RowsTaken(ts \ {u})

row_cursor_shared(t) == RowsTaken(Threads) + 1

\* the row the loop of thread t's call takes next: each call iterates over its own
\* self.rubric.iterrows() and appends to its own criteria_scores
row_cursor(t) == Len(frame[t].criteria_scores) + 1

\* transcript = preprocess_text(transcript); text_quality = analyze_text_quality(..)
st_enter(t) ==
    /\ pc[t] = "idle"
    /\ \E raw \in RawPool :
         \E text_quality \in {analyze_text_quality(preprocess_text(raw))} :
            /\ frame' = [frame EXCEPT ![t] =
                            [fn |-> "score_transcript", raw |-> raw,
                             transcript |-> preprocess_text(raw),
                             text_quality |-> text_quality,
                             criteria_scores |-> <<>>,
                             out |-> IF Raised(text_quality) THEN text_quality
                                     ELSE Pending]]
            /\ pc' = [pc EXCEPT ![t] = IF Raised(text_quality) THEN "done" ELSE "loop"]
    /\ UNCHANGED <<fnVars, globalVars, engineVars, apiVars>>

\* one turn of the loop over the rubric rows, or its end
st_row(t) ==
    /\ pc[t] = "loop"
    /\ LET rows == _scoring_engine.rubric
           k == row_cursor(t)
       IN  IF k > Len(rows)
           THEN /\ pc' = [pc EXCEPT ![t] = "result"]
                /\ frame' = frame
           ELSE IF ~(ScoredColumns \subseteq DOMAIN rows[k])
           THEN /\ pc' = [pc EXCEPT ![t] = "done"]
                /\ frame' = [frame EXCEPT ![t].out = Raise("KeyError")]
           ELSE /\ pc' = pc
                /\ frame' = [frame EXCEPT ![t].criteria_scores =
                               Append(@, _score_criterion(
                                   frame[t].transcript, Lower(frame[t].transcript),
                                   rows[k].Criterion,
                                   calculate_similarity(oracle, frame[t].transcript,
                                                        rows[k].Description),
                                   parse_keywords(rows[k].Keywords), rows[k].Weight,
                                   RowGet(rows[k], "Min_Words", 0),
                                   RowGet(rows[k], "Max_Words", NoLimitMax)))]
    /\ UNCHANGED <<fnVars, globalVars, engineVars, apiVars>>

\* the overall score and the result dictionary
st_result(t) ==
    /\ pc[t] = "result"
    /\ frame' = [frame EXCEPT ![t].out =
                    ScoreReport(frame[t].text_quality, frame[t].criteria_scores)]
    /\ pc' = [pc EXCEPT ![t] = "done"]
    /\ UNCHANGED <<fnVars, globalVars, engineVars, apiVars>>

\* scoring_engine.get_rubric_info(): one expression over self.rubric
info_call(t) ==
    /\ pc[t] = "idle"
    /\ frame' = [frame EXCEPT ![t] = [IdleCall EXCEPT !.fn = "get_rubric_info",
                                                      !.out = Ok(get_rubric_info)]]
    /\ pc' = [pc EXCEPT ![t] = "done"]
    /\ UNCHANGED <<fnVars, globalVars, engineVars, apiVars>>

\* the caller takes the result; the thread serves the next request
call_return(t) ==
    /\ pc[t] = "done"
    /\ pc' = [pc EXCEPT ![t] = "idle"]
    /\ frame' = [frame EXCEPT ![t] = IdleCall]
    /\ UNCHANGED <<fnVars, globalVars, engineVars, apiVars>>

NextParallel ==
    \E t \in Threads :
        \/ st_enter(t)
        \/ st_row(t)
        \/ st_result(t)
        \/ info_call(t)
        \/ call_return(t)

SpecParallel == InitParallel /\ [][NextParallel]_vars

(***************************************************************************)
(* backend/app.py: the two scoring routes, one request served at a time:   *)
(* SpecApi.  request and response are the last request and its response,   *)
(* invoked the functions the handler called while serving it.              *)
(***************************************************************************)
\* n times the word w, separated by single spaces
Words(n, w) == [i \in 1..(2 * n - 1) |-> IF i % 2 = 1 THEN w ELSE " "]

ShortText == Words(MinTranscriptWords - 1, "a")
MinText == Words(MinTranscriptWords, "a")
PunctText == Words(MinTranscriptWords, "!")
LongText == Words(MaxTranscriptWords, "z")
TooLongText == Words(MaxTranscriptWords + 1, "z")
PaddedText == <<" ", " ">> \o Words(MinTranscriptWords + 1, "b") \o <<" ">>
ApiTexts ==
    {<<>>, <<" ", " ">>, <<"a">>, ShortText, MinText, PaddedText, PunctText, LongText,
     TooLongText}
ApiOracle == OracleOf(Rat(3, 10))

\* request bodies of POST /api/score: no transcript key, or a value under it
ScoreRequest(value) ==
    [route |-> "score", present |-> TRUE, is_list |-> FALSE, body |-> value]
ScoreRequests ==
    {[route |-> "score", present |-> FALSE, is_list |-> FALSE, body |-> JsonNull]}
    \cup {ScoreRequest(value) :
              value \in {Str(t) : t \in ApiTexts \ {LongText, TooLongText}}
                        \cup {JsonNull, JsonNumber}}
\* the two longest transcripts are a client's first request
FirstRequests == {ScoreRequest(Str(LongText)), ScoreRequest(Str(TooLongText))}

\* request bodies of POST /api/batch-score: no transcripts key, a value that is
\* no list, or a list of values
BatchItems == {Str(MinText), Str(ShortText), Str(PunctText), Str(<<>>), JsonNumber}
BatchRequests ==
    {[route |-> "batch", present |-> FALSE, is_list |-> FALSE, body |-> <<>>],
     [route |-> "batch", present |-> TRUE, is_list |-> FALSE, body |-> <<>>]}
    \cup {[route |-> "batch", present |-> TRUE, is_list |-> TRUE, body |-> items] :
              items \in SeqsUpTo(BatchItems, MaxBatch)}

\* a sheet that reads well and lacks the Description column
MalformedRubric == <<[Criterion |-> "c1", Keywords |-> <<"a">>, Weight |-> 1]>>
ApiSourcePool == SourcePool \cup {Sheet(MalformedRubric)}
RubricRequest == [route |-> "rubric", present |-> FALSE, is_list |-> FALSE, body |-> <<>>]

InitApi ==
    /\ NoCall /\ NoThreads /\ NoRequests
    /\ scoring_engine = None /\ _scoring_engine = None /\ _nlp_processor = None
    /\ rubric_source \in ApiSourcePool
    /\ constructed = [nlp |-> 0, engine |-> 0]
    /\ oracle = ApiOracle
    /\ calls = <<>>

\* jsonify({'success': False, 'error': ...}), status
ErrorResponse(status, error) ==
    [status |-> status, success |-> FALSE, error |-> error, has_data |-> FALSE,
     data |-> <<>>]
\* f'Internal server error: {str(e)}', 500
InternalError(exc) == ErrorResponse(500, <<"Internal server error", exc>>)
\* jsonify({'success': True, 'data': ...})
SuccessResponse(data) ==
    [status |-> 200, success |-> TRUE, error |-> <<>>, has_data |-> TRUE,
     data |-> data]

\* the module globals as they are, and no exception
Globals ==
    [exc |-> "none", app |-> scoring_engine, engine |-> _scoring_engine,
     nlp |-> _nlp_processor, constructed |-> constructed]

\* init_scoring_engine() run from start to end by the one thread serving the
\* request: the globals afterwards and the exception that left the call
init_scoring_engine ==
    IF scoring_engine # None THEN Globals
    ELSE IF _scoring_engine # None THEN [Globals EXCEPT !.app = _scoring_engine]
    ELSE LET nlp == IF _nlp_processor = None
                    THEN [id |-> constructed.nlp + 1]
                    ELSE _nlp_processor
             made == IF _nlp_processor = None
                     THEN [constructed EXCEPT !.nlp = @ + 1]
                     ELSE constructed
         IN  IF ~rubric_source.readable
             THEN [Globals EXCEPT !.exc = "FileNotFoundError", !.nlp = nlp,
                                  !.constructed = made]
             ELSE LET inst == [id |-> constructed.engine + 1, nlp |-> nlp.id,
                               rubric |-> rubric_source.rows]
                  IN  [exc |-> "none", app |-> inst, engine |-> inst, nlp |-> nlp,
                       constructed |-> [made EXCEPT !.engine = @ + 1]]

SetGlobals(g) ==
    /\ scoring_engine' = g.app
    /\ _scoring_engine' = g.engine
    /\ _nlp_processor' = g.nlp
    /\ constructed' = g.constructed
    /\ UNCHANGED rubric_source

Served(resp, called, g) == [response |-> resp, invoked |-> called, globals |-> g]

\* result with result['score_category'] added
WithCategory(result) ==
    [report |-> result, score_category |-> get_score_category(result.overall_score)]

\* /api/score from the scoring call on
ScoreScored(result, g) ==
    IF Raised(result)
    THEN Served(InternalError(result.exc),
                {"validate_transcript", "init_scoring_engine", "score_transcript"}, g)
    ELSE Served(SuccessResponse(WithCategory(result.val)),
                {"validate_transcript", "init_scoring_engine", "score_transcript"}, g)

\* /api/score from init_scoring_engine() on
ScoreInitialized(transcript, g) ==
    IF g.exc # "none"
    THEN Served(InternalError(g.exc), {"validate_transcript", "init_scoring_engine"}, g)
    ELSE ScoreScored(score_transcript(g.app.rubric, oracle, transcript.text), g)

\* /api/score from the validation on
ScoreValidated(transcript, validation) ==
    IF Raised(validation)
    THEN Served(InternalError(validation.exc), {"validate_transcript"}, Globals)
    ELSE IF ~validation.val.valid
    THEN Served(ErrorResponse(400, <<validation.val.message>>),
                {"validate_transcript"}, Globals)
    ELSE ScoreInitialized(transcript, init_scoring_engine)

\* the handler of /api/score for the request req
ScoreResponse(req) ==
    IF ~req.present
    THEN Served(ErrorResponse(400, <<"Missing transcript in request body">>),
                {}, Globals)
    ELSE ScoreValidated(req.body, validate_transcript(req.body))

\* the entries of results
ErrorEntry(id, error) ==
    [id |-> id, error |-> error, scored |-> FALSE, report |-> <<>>,
     score_category |-> ""]
ScoredEntry(id, score_result) ==
    [id |-> id, error |-> "", scored |-> TRUE, report |-> score_result,
     score_category |-> get_score_category(score_result.overall_score)]

\* results.append(...) for a transcript that passed validation
AppendScored(results, id, score_result) ==
    Append(results, IF Raised(score_result)
                    THEN ErrorEntry(id, score_result.exc)
                    ELSE ScoredEntry(id, score_result.val))

\* batch_score's loop without the try around the scoring call
RECURSIVE BatchLoopUnguarded(_, _, _, _, _)
BatchLoopUnguarded(transcripts, rubric_rows, sim, i, results) ==
    IF i > Len(transcripts) THEN Ok(results)
    ELSE IF Raised(validate_transcript(transcripts[i]))
    THEN Raise(validate_transcript(transcripts[i]).exc)
    ELSE IF ~validate_transcript(transcripts[i]).val.valid
    THEN BatchLoopUnguarded(transcripts, rubric_rows, sim, i + 1,
                            Append(results,
                                   ErrorEntry(i, validate_transcript(transcripts[i])
                                                     .val.message)))
    ELSE IF Raised(analyze_text_quality(preprocess_text(transcripts[i].text)))
    THEN Raise(analyze_text_quality(preprocess_text(transcripts[i].text)).exc)
    ELSE BatchLoopUnguarded(transcripts, rubric_rows, sim, i + 1,
                            AppendScored(results, i,
                                         score_transcript(rubric_rows, sim,
                                                          transcripts[i].text)))

\* batch_score's loop from the i-th transcript on (i counts from 1, as the ids
\* do), results holding the entries appended so far; an exception of
\* validate_transcript is raised outside the inner try and leaves the loop
RECURSIVE BatchLoop(_, _, _, _, _)
BatchLoop(transcripts, rubric_rows, sim, i, results) ==
    IF i > Len(transcripts) THEN Ok(results)
    ELSE IF Raised(validate_transcript(transcripts[i]))
    THEN Raise(validate_transcript(transcripts[i]).exc)
    ELSE IF ~validate_transcript(transcripts[i]).val.valid
    THEN BatchLoop(transcripts, rubric_rows, sim, i + 1,
                   Append(results,
                          ErrorEntry(i, validate_transcript(transcripts[i])
                                            .val.message)))
    ELSE BatchLoop(transcripts, rubric_rows, sim, i + 1,
                   AppendScored(results, i,
                                score_transcript(rubric_rows, sim,
                                                 transcripts[i].text)))

\* the functions the loop calls: validate_transcript for every item up to the
\* first one it raises on, score_transcript for the valid ones among them
BatchInvoked(transcripts) ==
    LET reached == {i \in DOMAIN transcripts :
                        \A j \in 1..(i - 1) : ~Raised(validate_transcript(transcripts[j]))}
        valid == {i \in reached : /\ ~Raised(validate_transcript(transcripts[i]))
                                  /\ validate_transcript(transcripts[i]).val.valid}
    IN  (IF reached # {} THEN {"validate_transcript"} ELSE {})
        \cup (IF valid # {} THEN {"score_transcript"} ELSE {})

\* /api/batch-score from the loop on
BatchLooped(transcripts, results, g) ==
    IF Raised(results)
    THEN Served(InternalError(results.exc),
                {"init_scoring_engine"} \cup BatchInvoked(transcripts), g)
    ELSE Served(SuccessResponse(results.val),
                {"init_scoring_engine"} \cup BatchInvoked(transcripts), g)

\* /api/batch-score from init_scoring_engine() on
BatchInitialized(transcripts, g) ==
    IF g.exc # "none"
    THEN Served(InternalError(g.exc), {"init_scoring_engine"}, g)
    ELSE BatchLooped(transcripts,
                     BatchLoop(transcripts, g.app.rubric, oracle, 1, <<>>), g)

\* the handler of /api/batch-score for the request req
BatchResponse(req) ==
    IF ~req.present
    THEN Served(ErrorResponse(400, <<"Missing transcripts array in request body">>),
                {}, Globals)
    ELSE IF ~req.is_list
    THEN Served(ErrorResponse(400, <<"Transcripts must be an array">>), {}, Globals)
    ELSE BatchInitialized(req.body, init_scoring_engine)

\* POST /api/score
api_score_transcript ==
    /\ \E req \in ScoreRequests \cup (IF request = Pending THEN FirstRequests ELSE {}) :
          \E served \in {ScoreResponse(req)} :
              /\ request' = req
              /\ response' = served.response
              /\ invoked' = served.invoked
              /\ SetGlobals(served.globals)
    /\ UNCHANGED <<fnVars, threadVars, engineVars>>

\* POST /api/batch-score
batch_score ==
    /\ \E req \in BatchRequests :
          \E served \in {BatchResponse(req)} :
              /\ request' = req
              /\ response' = served.response
              /\ invoked' = served.invoked
              /\ SetGlobals(served.globals)
    /\ UNCHANGED <<fnVars, threadVars, engineVars>>

\* ScoringEngine.get_rubric_info on an engine whose rubric is rows
RubricInfo(rows) ==
    IF LacksColumn(rows, InfoColumns) THEN Raise("KeyError")
    ELSE Ok([criteria_count |-> Len(rows),
             total_weight |-> WeightTotal(rows),
             criteria |-> [k \in DOMAIN rows |->
                              [name |-> rows[k].Criterion,
                               weight |-> rows[k].Weight,
                               keyword_count |-> Len(parse_keywords(rows[k].Keywords))]]])

\* /api/rubric from init_scoring_engine() on
RubricInitialized(g) ==
    IF g.exc # "none"
    THEN Served(ErrorResponse(500, <<g.exc>>), {"init_scoring_engine"}, g)
    ELSE IF Raised(RubricInfo(g.app.rubric))
    THEN Served(ErrorResponse(500, <<RubricInfo(g.app.rubric).exc>>),
                {"init_scoring_engine", "get_rubric_info"}, g)
    ELSE Served(SuccessResponse(RubricInfo(g.app.rubric).val),
                {"init_scoring_engine", "get_rubric_info"}, g)

\* GET /api/rubric
get_rubric ==
    /\ \E served \in {RubricInitialized(init_scoring_engine)} :
          /\ request' = RubricRequest
          /\ response' = served.response
          /\ invoked' = served.invoked
          /\ SetGlobals(served.globals)
    /\ UNCHANGED <<fnVars, threadVars, engineVars>>

\* the operator repairs the rubric file; a running process keeps what it loaded
fix_rubric ==
    /\ rubric_source # Sheet(DefaultRubric)
    /\ rubric_source' = Sheet(DefaultRubric)
    /\ UNCHANGED <<fnVars, threadVars, engineVars, apiVars, scoring_engine,
                   _scoring_engine, _nlp_processor, constructed>>

NextApi == api_score_transcript \/ batch_score \/ get_rubric \/ fix_rubric

SpecApi == InitApi /\ [][NextApi]_vars

(***************************************************************************)
(* Claims about the functions, checked under Spec.                         *)
(***************************************************************************)
InScoreRange(x) == RLe(RInt(0), x) /\ RLe(x, RInt(100))

CriterionInRange(c) ==
    /\ InScoreRange(c.score)
    /\ InScoreRange(c.score_breakdown.rule_based)
    /\ InScoreRange(c.score_breakdown.semantic)
    /\ InScoreRange(c.score_breakdown.rubric_driven)

\* C1: every score lies in [0,100]: the three sub-scores and the final score of a
\* criterion, for any transcript, keyword list, word limits and similarity in
\* [0,1], and the overall score of a report for non-negative weights.
C1_ScoresInRange ==
    /\ ret.fn = "_score_criterion" => CriterionInRange(ret.value)
    /\ (ret.fn = "score_transcript" /\ ~Raised(ret.value)) =>
          /\ InScoreRange(ret.value.val.overall_score)
          /\ \A k \in DOMAIN ret.value.val.criteria_scores :
                 CriterionInRange(ret.value.val.criteria_scores[k])

\* a report over two weighted criteria, one sub-score at the upper limit
C1_Witness ==
    /\ ret.fn = "score_transcript" /\ ~Raised(ret.value)
    /\ Len(ret.value.val.criteria_scores) = 2
    /\ \A k \in 1..2 : ret.value.val.criteria_scores[k].weight = 2
    /\ RLt(RInt(50), ret.value.val.overall_score)
    /\ \E k \in 1..2 :
           ret.value.val.criteria_scores[k].score_breakdown.semantic = RInt(100)

\* whether the keyword, case-folded, is a substring of the case-folded text or one
\* of its tokens
KeywordInText(keyword, text) ==
    \/ \E i \in 1..(Len(text) + 1) : \E j \in (i - 1)..Len(text) :
           SubSeq(Lower(text), i, j) = Lower(keyword)
    \/ \E i \in DOMAIN word_tokenize(Lower(text)) :
           word_tokenize(Lower(text))[i] = Lower(keyword)

\* C5: find_keyword_matches partitions the keywords by position into found and
\* missing, both in input order; a keyword is found exactly when its case-folded
\* form is a substring or a token of the case-folded text; match_rate is
\* |found| / |keywords|, 0 for no keywords, 1 when every keyword is in the text.
C5_KeywordPartition ==
    ret.fn = "find_keyword_matches" =>
        LET kws == input.keywords
            In(k) == KeywordInText(k, input.text)
            Out(k) == ~KeywordInText(k, input.text)
        IN  /\ ret.value.found = SelectSeq(kws, In)
            /\ ret.value.missing = SelectSeq(kws, Out)
            /\ Len(ret.value.found) + Len(ret.value.missing) = Len(kws)
            /\ kws = <<>> => ret.value.match_rate = RInt(0)
            /\ kws # <<>> =>
                  /\ RMul(ret.value.match_rate, RInt(Len(kws)))
                         = RInt(Len(ret.value.found))
                  /\ (\A i \in DOMAIN kws : In(kws[i]))
                         => ret.value.match_rate = RInt(1)

\* a mixed-case keyword found in a text of other case, another keyword missing
C5_Witness ==
    /\ ret.fn = "find_keyword_matches"
    /\ ret.value.found = <<<<"A", "b">>>>
    /\ ret.value.missing = <<<<"b", " ", "a">>>>
    /\ input.keywords[1] = <<"b", " ", "a">>
    /\ ret.value.match_rate = Rat(1, 2)

RECURSIVE SumTo(_, _)
SumTo(f, n) == IF n = 0 THEN RInt(0) ELSE RAdd(f[n], SumTo(f, n - 1))

\* sum(score_i * weight_i) / sum(weight_i), 0 for no pairs or a zero total
WeightedMean(scores, weights) ==
    LET total == SumTo(weights, Len(weights))
        products == [i \in DOMAIN scores |-> RMul(scores[i], weights[i])]
    IN  IF Len(scores) = 0 \/ total = RInt(0) THEN RInt(0)
        ELSE RDiv(SumTo(products, Len(products)), total)

\* C6: the overall score is the weighted mean sum(score_i * weight_i) /
\* sum(weight_i) of the per-criterion scores, normalised by the weights present;
\* calculate_weighted_average returns 0 for an empty list or a zero total weight.
\* (The report carries that value rounded to two decimals.)
C6_WeightedMean ==
    /\ ret.fn = "calculate_weighted_average" =>
          LET scores == PairScores(input.pairs)
              weights == PairWeights(input.pairs)
              total == SumTo(weights, Len(weights))
          IN  /\ ret.value = WeightedMean(scores, weights)
              /\ (input.pairs = <<>> \/ total = RInt(0)) => ret.value = RInt(0)
              /\ total # RInt(0) =>
                    RMul(ret.value, total)
                        = SumTo([i \in DOMAIN scores |-> RMul(scores[i], weights[i])],
                                Len(scores))
    /\ (ret.fn = "score_transcript" /\ ~Raised(ret.value)) =>
          LET cs == ret.value.val.criteria_scores
          IN  ret.value.val.overall_score
                  = Round2(WeightedMean([k \in DOMAIN cs |-> cs[k].score],
                                        [k \in DOMAIN cs |->
                                             RInt(input.rubric[k].Weight)]))

\* three pairs whose weights total 4, and a mean that is none of the scores
C6_Witness ==
    /\ ret.fn = "calculate_weighted_average"
    /\ Len(input.pairs) = 3
    /\ SumTo(PairWeights(input.pairs), 3) = RInt(4)
    /\ ret.value = Rat(225, 4)

\* C8 as stated: with max_words >= min_words, exactly min_words words are
\* classified within_range
C8_Original ==
    (/\ ret.fn = "get_word_count_status"
     /\ input.max_words >= input.min_words
     /\ input.word_count = input.min_words)
        => ret.value = "within_range"

\* C8 (amended): with max_words >= min_words, exactly min_words words are never
\* classified too_short: the status is within_range, except for a criterion
\* without limits (min_words = 0 and max_words >= 999), where it is no_limit.
C8_MinWordsBoundary ==
    (/\ ret.fn = "get_word_count_status"
     /\ input.max_words >= input.min_words
     /\ input.word_count = input.min_words)
        => /\ ret.value # "too_short"
           /\ ret.value = IF input.min_words = 0 /\ input.max_words >= NoLimitMax
                          THEN "no_limit" ELSE "within_range"

\* exactly min_words (> 0) words under a bounded maximum
C8_Witness ==
    /\ ret.fn = "get_word_count_status"
    /\ input.min_words = 2 /\ input.word_count = 2
    /\ input.max_words = NoLimitMax - 1
    /\ ret.value = "within_range"

\* C9: analyze_text_quality never raises; avg_sentence_length is 0 without
\* sentences, vocabulary_richness is unique/total, 0 without words, and in [0,1].
C9_NoFailure ==
    ret.fn = "analyze_text_quality" =>
        /\ ~Raised(ret.value)
        /\ ret.value.val.sentence_count = 0 =>
               ret.value.val.avg_sentence_length = RInt(0)
        /\ ret.value.val.word_count = 0 =>
               ret.value.val.vocabulary_richness = RInt(0)
        /\ ret.value.val.word_count # 0 =>
               ret.value.val.vocabulary_richness
                   = Rat(ret.value.val.unique_words, ret.value.val.word_count)
        /\ RLe(RInt(0), ret.value.val.vocabulary_richness)
        /\ RLe(ret.value.val.vocabulary_richness, RInt(1))

C2_InitOnce ==
    [][/\ constructed'.engine <= 1
       /\ constructed'.nlp <= 1
       /\ scoring_engine # None => scoring_engine' = scoring_engine
       /\ _scoring_engine # None => _scoring_engine' = _scoring_engine
       /\ _nlp_processor # None => _nlp_processor' = _nlp_processor]_vars

C4_ValidateBeforeScoring ==
    (/\ request # Pending
     /\ request.route = "score" /\ request.present
     /\ request.body.type = "str")
    => LET text == request.body.text
           word_count == SplitCount(text)
           rejected == Strip(text) = <<>> \/ word_count < 10 \/ word_count > 5000
       IN  /\ rejected =>
                  /\ response.status = 400 /\ ~response.success
                  /\ response.error # <<>> /\ ~response.has_data
                  /\ "init_scoring_engine" \notin invoked
                  /\ "score_transcript" \notin invoked
           /\ ~rejected =>
                  /\ response.status # 400
                  /\ "init_scoring_engine" \in invoked

\* a transcript of nine words rejected while the rubric is readable and no engine
\* exists
C4_Witness ==
    /\ request # Pending
    /\ request.route = "score" /\ request.present
    /\ request.body.type = "str"
    /\ SplitCount(request.body.text) = 9
    /\ response.status = 400
    /\ rubric_source.readable
    /\ scoring_engine = None /\ _nlp_processor = None

(***************************************************************************)
(* Further claims about the functions, checked under Spec.                 *)
(***************************************************************************)
ReportScores(report) ==
    [k \in DOMAIN report.criteria_scores |-> report.criteria_scores[k].score]
RubricWeights(rows) == [k \in DOMAIN rows |-> RInt(rows[k].Weight)]

\* C11 as stated: an overall_score of 0 is reported only for a rubric without
\* rows or with every weight 0
C11_Original ==
    (/\ ret.fn = "score_transcript" /\ ~Raised(ret.value)
     /\ ret.value.val.overall_score = RInt(0))
    => \/ input.rubric = <<>>
       \/ \A k \in DOMAIN input.rubric : input.rubric[k].Weight = 0

\* C11: overall_score is 0 when the rubric has no rows or the weights total 0;
\* otherwise it is 0 exactly when the weighted mean of the criterion scores is
\* at most 0.005, which rounds to 0.00 (every weighted criterion scored about 0).
C11_ZeroOverall ==
    (ret.fn = "score_transcript" /\ ~Raised(ret.value)) =>
        LET weights == RubricWeights(input.rubric)
            total == SumTo(weights, Len(weights))
            mean == WeightedMean(ReportScores(ret.value.val), weights)
            overall == ret.value.val.overall_score
        IN  /\ (input.rubric = <<>> \/ total = RInt(0)) => overall = RInt(0)
            /\ (input.rubric # <<>> /\ total # RInt(0)) =>
                   (overall = RInt(0) <=> RLe(mean, Rat(1, 200)))

\* a rubric of positively weighted criteria that all score 0
C11_Witness ==
    /\ ret.fn = "score_transcript" /\ ~Raised(ret.value)
    /\ Len(input.rubric) = 2
    /\ \A k \in DOMAIN input.rubric : input.rubric[k].Weight > 0
    /\ \A k \in DOMAIN input.rubric : ret.value.val.criteria_scores[k].score = RInt(0)
    /\ ret.value.val.overall_score = RInt(0)

\* the category of a score by the intervals of the bands, and the rank of a category
Band(score) ==
    CHOOSE category \in {"Excellent", "Very Good", "Good", "Satisfactory", "Fair",
                         "Needs Improvement"} :
        \/ category = "Excellent" /\ RLe(RInt(90), score)
        \/ category = "Very Good" /\ RLe(RInt(80), score) /\ RLt(score, RInt(90))
        \/ category = "Good" /\ RLe(RInt(70), score) /\ RLt(score, RInt(80))
        \/ category = "Satisfactory" /\ RLe(RInt(60), score) /\ RLt(score, RInt(70))
        \/ category = "Fair" /\ RLe(RInt(50), score) /\ RLt(score, RInt(60))
        \/ category = "Needs Improvement" /\ RLt(score, RInt(50))

CategoryRank(category) ==
    CASE category = "Needs Improvement" -> 0
      [] category = "Fair" -> 1
      [] category = "Satisfactory" -> 2
      [] category = "Good" -> 3
      [] category = "Very Good" -> 4
      [] category = "Excellent" -> 5

\* C14: get_score_category is a total, monotone banding of the score: 'Excellent' for
\* score >= 90, 'Very Good' for 80 <= score < 90, 'Good' for 70 <= score < 80,
\* 'Satisfactory' for 60 <= score < 70, 'Fair' for 50 <= score < 60 and
\* 'Needs Improvement' for score < 50; a higher score never gets a lower category.
C14_CategoryBands ==
    (ret # Pending /\ ret.fn = "get_score_category") =>
        /\ ret.value = Band(input.score)
        /\ ret.other = Band(input.other)
        /\ RLe(input.score, input.other) =>
               CategoryRank(ret.value) <= CategoryRank(ret.other)

\* a score exactly on a threshold got the upper band, and a score a hundredth below
\* it the lower one
C14_Witness ==
    /\ ret # Pending /\ ret.fn = "get_score_category"
    /\ input.other = RInt(80) /\ ret.other = "Very Good"
    /\ input.score = Rat(7999, 100) /\ ret.value = "Good"

\* what the criterion scorer returns for one rubric row
RowResult(row, sim, raw) ==
    _score_criterion(preprocess_text(raw), Lower(preprocess_text(raw)), row.Criterion,
                     calculate_similarity(sim, preprocess_text(raw), row.Description),
                     parse_keywords(row.Keywords), row.Weight,
                     RowGet(row, "Min_Words", 0), RowGet(row, "Max_Words", NoLimitMax))

\* C15: score_transcript runs the criterion scorer exactly once per rubric row and
\* preserves rubric order: the criteria list of the report is as long as the rubric,
\* its k-th entry is the scorer's result for the k-th row and carries that row's
\* name and weight, and the overall score is the mean under those rubric weights.
C15_OncePerRowInOrder ==
    (ret.fn = "score_transcript" /\ ~Raised(ret.value)) =>
        LET report == ret.value.val
            rows == input.rubric
        IN  /\ Len(report.criteria_scores) = Len(rows)
            /\ \A k \in DOMAIN rows :
                   /\ report.criteria_scores[k].criterion = rows[k].Criterion
                   /\ report.criteria_scores[k].weight = rows[k].Weight
                   /\ report.criteria_scores[k] =
                          RowResult(rows[k], OracleOf(input.similarity), input.raw)
            /\ report.overall_score =
                   Round2(WeightedMean(ReportScores(report), RubricWeights(rows)))

\* a report over two rows of different names, weights and scores
C15_Witness ==
    /\ ret.fn = "score_transcript" /\ ~Raised(ret.value)
    /\ Len(input.rubric) = 2
    /\ input.rubric[1].Criterion = "c4" /\ input.rubric[2].Criterion = "c1"
    /\ ret.value.val.criteria_scores[1].weight = 2
    /\ ret.value.val.criteria_scores[2].weight = 1
    /\ ret.value.val.criteria_scores[1].score # ret.value.val.criteria_scores[2].score

\* the sub-scores _score_criterion computes for the call drawn in input
RuleOf(call) ==
    _rule_based_score(Lower(call.transcript), call.keywords, call.limits[1],
                      call.limits[2])
SemanticOf(call) == _semantic_score(call.similarity)
DensityCoverageOf(call) == _rubric_driven_score(Lower(call.transcript), call.keywords)

\* clamp(0.4 * rule + 0.4 * semantic + 0.2 * density_coverage, 0, 100)
ClampedBlend(rule, semantic, density_coverage) ==
    LET blend == Rat(4 * rule[1] * semantic[2] * density_coverage[2]
                     + 4 * semantic[1] * rule[2] * density_coverage[2]
                     + 2 * density_coverage[1] * rule[2] * semantic[2],
                     10 * rule[2] * semantic[2] * density_coverage[2])
    IN  IF RLt(blend, RInt(0)) THEN RInt(0)
        ELSE IF RLt(RInt(100), blend) THEN RInt(100)
        ELSE blend

\* C16 as stated: the reported score is the clamped blend of the three sub-scores
\* and score_breakdown holds exactly the sub-scores that were blended
C16_Original ==
    ret.fn = "_score_criterion" =>
        /\ ret.value.score_breakdown =
               [rule_based |-> RuleOf(input), semantic |-> SemanticOf(input),
                rubric_driven |-> DensityCoverageOf(input)]
        /\ ret.value.score = ClampedBlend(ret.value.score_breakdown.rule_based,
                                          ret.value.score_breakdown.semantic,
                                          ret.value.score_breakdown.rubric_driven)

\* C16: the three sub-scores lie in [0,100]; the criterion's score is
\* clamp(0.4*rule + 0.4*semantic + 0.2*density_coverage, 0, 100) of the unrounded
\* sub-scores, reported rounded to two decimals, and score_breakdown holds each of
\* the three sub-scores rounded to two decimals.
C16_RoundedBlend ==
    ret.fn = "_score_criterion" =>
        /\ InScoreRange(RuleOf(input)) /\ InScoreRange(SemanticOf(input))
        /\ InScoreRange(DensityCoverageOf(input))
        /\ ret.value.score =
               Round2(ClampedBlend(RuleOf(input), SemanticOf(input),
                                   DensityCoverageOf(input)))
        /\ ret.value.score_breakdown =
               [rule_based |-> Round2(RuleOf(input)),
                semantic |-> Round2(SemanticOf(input)),
                rubric_driven |-> Round2(DensityCoverageOf(input))]

\* a criterion whose rule-based sub-score has more than two decimals, with three
\* different sub-scores
C16_Witness ==
    /\ ret.fn = "_score_criterion"
    /\ ret.value.score_breakdown.rule_based # RuleOf(input)
    /\ RuleOf(input) # SemanticOf(input)
    /\ SemanticOf(input) # DensityCoverageOf(input)
    /\ RuleOf(input) # DensityCoverageOf(input)
    /\ RLt(RInt(0), ret.value.score)

\* the keywords of a list that occur in the text as substrings, by position
OccursAt(keyword, text, i) ==
    /\ i + Len(keyword) - 1 <= Len(text)
    /\ \A j \in DOMAIN keyword : text[i + j - 1] = keyword[j]
KeywordsPresent(keywords, text) ==
    {k \in DOMAIN keywords :
        \E i \in 1..(Len(text) + 1) : OccursAt(Lower(keywords[k]), text, i)}

\* the presence and length terms as the rule states them, the cases of the length
\* term taken in the order given
PresenceTerm(keywords, text) ==
    IF keywords = <<>> THEN RInt(35)
    ELSE Rat(70 * Cardinality(KeywordsPresent(keywords, text)), Len(keywords))

LengthTerm(word_count, min_words, max_words) ==
    CASE min_words = 0 /\ max_words >= 999 -> RInt(30)
      [] ~(min_words = 0 /\ max_words >= 999)
         /\ min_words <= word_count /\ word_count <= max_words -> RInt(30)
      [] ~(min_words = 0 /\ max_words >= 999)
         /\ word_count < min_words ->
            IF min_words = 0 THEN RInt(30)
            ELSE IF word_count <= min_words THEN Rat(30 * word_count, min_words)
            ELSE RInt(30)
      [] OTHER -> RInt(20)

\* C17: the rule-based sub-score is presence + length: presence is
\* 70 * (keywords found as substring) / |keywords|, or 35 for an empty keyword list;
\* length is 30 when min_words = 0 and max_words >= 999, otherwise 30 when
\* min_words <= word_count <= max_words, 30 * min(word_count / min_words, 1) when
\* word_count < min_words, and a flat 20 when word_count > max_words however
\* far over; word_count is the number of whitespace-separated words.
C17_RuleBased ==
    (ret.fn = "_rule_based_score") =>
        LET word_count == SplitCount(input.transcript_lower)
        IN  /\ ret.value =
                   RAdd(PresenceTerm(input.keywords, input.transcript_lower),
                        LengthTerm(word_count, input.min_words, input.max_words))
            /\ (/\ word_count > input.max_words
                 /\ word_count >= input.min_words
                 /\ input.max_words < 999) =>
                    ret.value = RAdd(PresenceTerm(input.keywords,
                                                  input.transcript_lower), RInt(20))

\* four words against a limit of one to two words, one of two keywords present:
\* 35 + 20
C17_Witness ==
    /\ ret.fn = "_rule_based_score"
    /\ SplitCount(input.transcript_lower) = 4
    /\ input.min_words = 1 /\ input.max_words = 2
    /\ Len(input.keywords) = 2
    /\ Cardinality(KeywordsPresent(input.keywords, input.transcript_lower)) = 1
    /\ ret.value = RInt(55)

\* the rescaling of a similarity, band by band
Rescaled(similarity) ==
    CASE RLe(Rat(7, 10), similarity) ->
            Rat(70 * 10 * similarity[2] + (10 * similarity[1] - 7 * similarity[2]) * 100,
                10 * similarity[2])
      [] RLe(Rat(4, 10), similarity) /\ RLt(similarity, Rat(7, 10)) ->
            Rat(40 * 10 * similarity[2] + (10 * similarity[1] - 4 * similarity[2]) * 100,
                10 * similarity[2])
      [] RLt(similarity, Rat(4, 10)) -> Rat(100 * similarity[1], similarity[2])

\* the band [lo, hi) or [lo, hi] a value lies in
InBand(x, lo, hi, closed) ==
    /\ RLe(RInt(lo), x)
    /\ IF closed THEN RLe(x, RInt(hi)) ELSE RLt(x, RInt(hi))

\* C18 as stated: the semantic sub-score is the piecewise rescaling of the
\* similarity, and the similarity reported with the criterion is the value that
\* was rescaled
C18_Original ==
    ret.fn = "_score_criterion" =>
        /\ SemanticOf(input) = Rescaled(input.similarity)
        /\ ret.value.semantic_similarity = input.similarity

\* C18: the semantic sub-score is the piecewise rescaling of the oracle similarity:
\* similarity >= 0.7 gives 70 + (similarity - 0.7) * 100 in [70,100],
\* 0.4 <= similarity < 0.7 gives 40 + (similarity - 0.4) * 100 in [40,70), and
\* similarity < 0.4 gives similarity * 100 in [0,40); the criterion reports the
\* sub-score and the similarity that was rescaled each rounded to two decimals.
C18_SemanticRescaling ==
    ret.fn = "_score_criterion" =>
        LET similarity == input.similarity
            semantic == SemanticOf(input)
        IN  /\ semantic = Rescaled(similarity)
            /\ RLe(Rat(7, 10), similarity) => InBand(semantic, 70, 100, TRUE)
            /\ (RLe(Rat(4, 10), similarity) /\ RLt(similarity, Rat(7, 10))) =>
                   InBand(semantic, 40, 70, FALSE)
            /\ RLt(similarity, Rat(4, 10)) => InBand(semantic, 0, 40, FALSE)
            /\ ret.value.score_breakdown.semantic = Round2(semantic)
            /\ ret.value.semantic_similarity = Round2(similarity)

\* a similarity of 0.6999, rescaled in the middle band to 69.99 and reported as 0.7
C18_Witness ==
    /\ ret.fn = "_score_criterion"
    /\ input.similarity = Rat(6999, 10000)
    /\ ret.value.score_breakdown.semantic = Rat(6999, 100)
    /\ ret.value.semantic_similarity = Rat(7, 10)

\* the occurrences of a keyword in a text as str.count counts them: the most
\* places it can be found at without two of them overlapping
Occurrences(keyword, text) ==
    LET places == {i \in DOMAIN text : OccursAt(keyword, text, i)}
        Disjoint(P) == \A i, j \in P : i < j => i + Len(keyword) <= j
        sizes == {Cardinality(P) : P \in {Q \in SUBSET places : Disjoint(Q)}}
    IN  CHOOSE n \in sizes : \A m \in sizes : m <= n

OccurrenceCount(keywords, text) ==
    LET hits == [k \in DOMAIN keywords |->
                    RInt(Occurrences(Lower(keywords[k]), text))]
    IN  SumTo(hits, Len(hits))[1]

\* C19: the density/coverage sub-score is 50 for an empty keyword list; otherwise
\* it is min(50, occurrence_count * 10) + 50 * (keywords present at least once) /
\* |keywords|, where occurrence_count sums over the keywords the occurrences of
\* each in the lower-cased text; with 5 or more occurrences the density term is 50
\* whatever their number.
C19_DensityCoverage ==
    ret.fn = "_rubric_driven_score" =>
        LET text == input.transcript_lower
            keywords == input.keywords
            occurrence_count == OccurrenceCount(keywords, text)
            coverage == Rat(50 * Cardinality(KeywordsPresent(keywords, text)),
                            IF keywords = <<>> THEN 1 ELSE Len(keywords))
        IN  /\ keywords = <<>> => ret.value = RInt(50)
            /\ keywords # <<>> =>
                   ret.value = RAdd(IF occurrence_count * 10 < 50
                                    THEN RInt(occurrence_count * 10) ELSE RInt(50),
                                    coverage)
            /\ (keywords # <<>> /\ occurrence_count >= 5) =>
                   ret.value = RAdd(RInt(50), coverage)

\* one of two keywords present, six times: 50 + 25
C19_Witness ==
    /\ ret.fn = "_rubric_driven_score"
    /\ Len(input.keywords) = 2
    /\ Cardinality(KeywordsPresent(input.keywords, input.transcript_lower)) = 1
    /\ OccurrenceCount(input.keywords, input.transcript_lower) = 6
    /\ ret.value = RInt(75)

\* the qualitative band of a score and the semantic clause of a similarity
FeedbackBand(score) ==
    CASE RLe(RInt(90), score) -> "Excellent performance."
      [] RLe(RInt(75), score) /\ RLt(score, RInt(90)) -> "Good performance."
      [] RLe(RInt(60), score) /\ RLt(score, RInt(75)) -> "Satisfactory performance."
      [] RLe(RInt(40), score) /\ RLt(score, RInt(60)) -> "Needs improvement."
      [] RLt(score, RInt(40)) -> "Requires significant improvement."

SemanticClause(similarity) ==
    CASE RLe(Rat(3, 4), similarity) -> "Strong semantic alignment with criterion."
      [] RLe(Rat(1, 2), similarity) /\ RLt(similarity, Rat(3, 4)) ->
            "Moderate semantic relevance."
      [] RLt(similarity, Rat(1, 2)) -> "Consider addressing this aspect more directly."

\* C20: feedback banding follows fixed thresholds: the qualitative band is chosen
\* from the score at 90/75/60/40; the keyword clause is phrased one way for more
\* than 3 keywords found and another way for 1 to 3 (none for 0); the semantic
\* clause has three bands at 0.75 and 0.5; a length clause is present exactly when
\* min_words > 0 and max_words < 999.
C20_FeedbackBands ==
    ret.fn = "format_feedback" =>
        LET found == input.keywords_found
        IN  /\ ret.value.band = FeedbackBand(input.score)
            /\ found = <<>> => ret.value.found = <<>>
            /\ (found # <<>> /\ Len(found) <= 3) =>
                   ret.value.found = <<"Found keywords", found>>
            /\ Len(found) > 3 =>
                   ret.value.found = <<"Strong keyword coverage", found[1], found[2],
                                       Len(found) - 2>>
            /\ ret.value.semantic = SemanticClause(input.semantic_similarity)
            /\ (ret.value.length # <<>>) <=>
                   (input.lengths[2] > 0 /\ input.lengths[3] < 999)

\* a score of exactly 75 with four keywords found, a similarity just under 0.75 and
\* a minimum but no maximum: no length clause
C20_Witness ==
    /\ ret.fn = "format_feedback"
    /\ input.score = RInt(75) /\ ret.value.band = "Good performance."
    /\ Len(input.keywords_found) = 4 /\ Len(ret.value.found) = 4
    /\ input.semantic_similarity = Rat(7499, 10000)
    /\ ret.value.semantic = "Moderate semantic relevance."
    /\ input.lengths[2] = 1 /\ input.lengths[3] = NoLimitMax
    /\ ret.value.length = <<>>

\* the branch of the word count compliance term _rule_based_score takes
LengthBranch(word_count, min_words, max_words) ==
    IF ~(min_words > 0 \/ max_words < NoLimitMax) THEN "full"
    ELSE IF min_words <= word_count /\ word_count <= max_words THEN "full"
    ELSE IF word_count < min_words THEN "shortfall"
    ELSE "flat"

\* C21: within one criterion result the length award of the rule-based sub-score
\* agrees with the reported word_count_status: the full 30 points exactly when the
\* status is within_range or no_limit, the flat 20 exactly when it is too_long, and
\* a shortfall award below 30 exactly when it is too_short.
C21_LengthAgreesWithStatus ==
    ret.fn = "_score_criterion" =>
        LET word_count == SplitCount(Lower(input.transcript))
            branch == LengthBranch(word_count, input.limits[1], input.limits[2])
            award == LengthAward(word_count, input.limits[1], input.limits[2])
            status == ret.value.word_count_status
        IN  /\ (branch = "full" /\ award = RInt(30))
                   <=> status \in {"within_range", "no_limit"}
            /\ (branch = "flat" /\ award = RInt(20)) <=> status = "too_long"
            /\ (branch = "shortfall" /\ RLt(award, RInt(30))) <=> status = "too_short"

\* C22: a criterion with an empty keyword list and no word limits (min_words = 0,
\* max_words >= 999) never scores below 36 or above 76: its rule-based sub-score is
\* 65 and its density/coverage sub-score 50, so its final score is
\* 36 + 0.4 * semantic for every transcript and similarity (reported rounded to
\* two decimals).
C22_NeutralCriterion ==
    (/\ ret.fn = "_score_criterion"
     /\ input.keywords = <<>>
     /\ input.limits[1] = 0 /\ input.limits[2] >= 999) =>
        LET semantic == SemanticOf(input)
            final_score == normalize_score(CombinedScore(RuleOf(input), semantic,
                                                         DensityCoverageOf(input)))
            expected == Rat(360 * semantic[2] + 4 * semantic[1], 10 * semantic[2])
        IN  /\ RuleOf(input) = RInt(65)
            /\ DensityCoverageOf(input) = RInt(50)
            /\ ret.value.score_breakdown.rule_based = RInt(65)
            /\ ret.value.score_breakdown.rubric_driven = RInt(50)
            /\ final_score = expected
            /\ ret.value.score = Round2(expected)
            /\ RLe(RInt(36), final_score) /\ RLe(final_score, RInt(76))
            /\ RLe(RInt(36), ret.value.score) /\ RLe(ret.value.score, RInt(76))

\* such a criterion at similarity 1 on a transcript of several words: 76
C22_Witness ==
    /\ ret.fn = "_score_criterion"
    /\ input.keywords = <<>>
    /\ input.limits = <<0, NoLimitMax + 1>>
    /\ SplitCount(input.transcript) >= 3
    /\ input.similarity = RInt(1)
    /\ ret.value.score = RInt(76)

\* |a - b| as a rational
RDist(a, b) == IF RLe(a, b) THEN RSub(b, a) ELSE RSub(a, b)

Faulty(source) == ~source.readable \/ LacksColumn(source.rows, ScoredColumns)

\* C12: a configuration error is fatal at initialization: while the rubric source
\* is missing or malformed, the engine singletons stay unset and every request
\* (score, batch_score, rubric) reports an error and returns no score or rubric
\* data; a response carries data only after an initialization succeeded.
C12_FatalConfigError ==
    /\ Faulty(rubric_source) =>
          /\ scoring_engine = None /\ _scoring_engine = None
          /\ request # Pending =>
                 /\ ~response.success /\ ~response.has_data
                 /\ response.error # <<>>
    /\ (request # Pending /\ response.has_data) => scoring_engine # None

(***************************************************************************)
(* Claims about interleaved calls, checked under SpecParallel.             *)
(***************************************************************************)
\* what the call of thread t returns when it runs alone on the engine
AloneResult(call) ==
    IF call.fn = "score_transcript"
    THEN score_transcript(_scoring_engine.rubric, oracle, call.raw)
    ELSE Ok(get_rubric_info)

\* C13: scoring calls share no mutable state: after initialization no step of
\* score_transcript or get_rubric_info changes the rubric table, the oracle or the
\* singleton variables, and in every interleaving of the calls of several threads
\* each call returns the report it returns when run alone.
C13_NoSharedMutableState ==
    [][/\ UNCHANGED <<globalVars, oracle>>
       /\ \A t \in Threads :
             pc'[t] = "done" => frame'[t].out = AloneResult(frame'[t])]_vars

\* a scoring call returned a report of two or more criteria while the scoring call
\* of another thread, on another transcript, was in the middle of its loop
C13_Witness ==
    \E t, u \in Threads :
        /\ t # u
        /\ pc[t] = "done" /\ frame[t].fn = "score_transcript"
        /\ ~Raised(frame[t].out)
        /\ Len(frame[t].out.val.criteria_scores) >= 2
        /\ pc[u] = "loop" /\ frame[u].raw # frame[t].raw
        /\ Len(frame[u].criteria_scores) = 1

====
